---- MODULE Spec2Model ----
(***************************************************************************)
(* Brankobot: the replay-file decoder                                      *)
(*   cogs/utils/wotreplay_folder/extract_data_from_replay.py               *)
(*   cogs/utils/wotreplay_folder/wotreplay.py                              *)
(*   cogs/wot.py (the replayinfo command, the decoder's caller)            *)
(*                                                                         *)
(* Characters are code points (the code compares ord(letter)); a text is a *)
(* sequence of code points.  Positions (pos, match, index) are Python's    *)
(* 0-based positions, so the character at position p of s is s[p + 1].     *)
(***************************************************************************)
EXTENDS Integers, Sequences, FiniteSets, TLC

VARIABLES
    file,             \* the capture file, as open(..., errors='ignore') decodes it
    pc,               \* where the pipeline stands
    file_content,     \* Parser.file_content
    pos,              \* _extract_json_objects: pos
    idx,              \* Parser.__init__: i of enumerate(self.raw_json)
    replay_metadata,  \* Parser.replay_metadata
    battle_data,      \* Parser.battle_data
    yielded,          \* history: what the scanner yielded, with where it was found
    skipped,          \* history: the candidates whose decode failed
    replay,           \* the Replay object: battle_data, meta_data
    disk,             \* battle_data.json and meta_data.json in the working directory
    built,            \* replayinfo: the records built so far, <<name, record>> in order
    raised,           \* the exception raised inside replayinfo's inner try block
    error,            \* the exception that leaves the extraction step of replayinfo
    runs,             \* the Replay constructions that run side by side, one record each
    atts,             \* replayinfo: replay_message.attachments, the filenames in order
    temp_file,        \* replayinfo: the local variable temp_file
    reminders,        \* the rows of the reminders table
    REMINDER_TASKS,   \* Bot.REMINDER_TASKS: reminder id -> its sleep task
    timers,           \* the start_timer coroutines, one per reminder
    dispatched,       \* history: how often reminder_due was dispatched, per reminder
    due,              \* the on_reminder_due handlers that were dispatched and not yet run
    removal,          \* the invocation of `reminder remove` in progress
    custom_commands,  \* the rows of the custom_commands table, in insertion order
    invocations,      \* the cc_add / cc_rename invocations in progress
    MUSIC_PLAYERS,    \* Bot.MUSIC_PLAYERS: guild id -> MusicPlayer
    loops,            \* the MusicPlayer objects: queue, and where player_loop stands
    voice_client,     \* guild.voice_client, per guild
    cleanups,         \* the Music.cleanup tasks that destroy() created and that have not run
    last_messages,    \* Events._last_messages: channel id -> content, counter
    handlers,         \* the on_message handlers suspended in `await channel.send`
    sent,             \* history: how many echoes were sent, per channel
    seen              \* history: the run of identical counted messages, per channel

attachVars == <<atts, temp_file>>
reminderVars == <<reminders, REMINDER_TASKS, timers, dispatched, due, removal>>
commandVars == <<custom_commands, invocations>>
musicVars == <<MUSIC_PLAYERS, loops, voice_client, cleanups>>
messageVars == <<last_messages, handlers, sent, seen>>
botVars == <<reminderVars, commandVars, musicVars, messageVars>>
replayVars == <<file, pc, file_content, pos, idx, replay_metadata, battle_data,
                yielded, skipped, replay, disk, built, raised, error, runs>>

vars == <<replayVars, attachVars, botVars>>

\* Bot.__init__, line 298: self.REMINDER_TASKS = {}; no reminder is loaded
ReminderIdle ==
    /\ reminders = {}
    /\ REMINDER_TASKS = <<>>
    /\ timers = <<>>
    /\ dispatched = <<>>
    /\ due = {}
    /\ removal = <<>>

\* no custom command command is running, the table is empty
CommandIdle ==
    /\ custom_commands = <<>>
    /\ invocations = <<>>

\* Bot.__init__, line 299: self.MUSIC_PLAYERS = {}
MusicIdle ==
    /\ MUSIC_PLAYERS = <<>>
    /\ loops = <<>>
    /\ voice_client = <<>>
    /\ cleanups = {}

\* Events.__init__, line 118: self._last_messages = defaultdict(...)
MessageIdle ==
    /\ last_messages = <<>>
    /\ handlers = <<>>
    /\ sent = <<>>
    /\ seen = <<>>

BotIdle == ReminderIdle /\ CommandIdle /\ MusicIdle /\ MessageIdle

(***************************************************************************)
(* Bounds of the model                                                     *)
(***************************************************************************)
\* a capture file is a concatenation of at most MaxPieces pieces
MaxPieces == 3
\* the personal map of a decoded capture has at most MaxAccounts keys
MaxAccounts == 2
\* the roster of a decoded capture has at most MaxPlayers participants
MaxPlayers == 2
\* the reminders table holds MaxReminders rows when the bot starts
MaxReminders == 2
\* `reminder remove` is invoked at most MaxRemovals times
MaxRemovals == 2
\* MaxInvocations custom command commands run side by side
MaxInvocations == 2
\* at most MaxMusicPlayers MusicPlayer objects are created
MaxMusicPlayers == 3
\* a queue holds at most MaxQueue songs
MaxQueue == 2
\* on_message is called for at most MaxMessages messages
MaxMessages == 5

(***************************************************************************)
(* Characters                                                              *)
(***************************************************************************)
Chr == [nl |-> 10, cr |-> 13, tab |-> 9, sp |-> 32, bang |-> 33, quote |-> 34,
        plus |-> 43, comma |-> 44, minus |-> 45, dot |-> 46, zero |-> 48,
        nine |-> 57, colon |-> 58, bigE |-> 69, backslash |-> 92, e |-> 101,
        lbrace |-> 123, rbrace |-> 125, del |-> 127, pad |-> 128]

\* Python's None
None == [t |-> "none"]

\* s[p:p+1] of Python: the character at 0-based position p, -1 for ''
At(s, p) == IF p >= 0 /\ p < Len(s) THEN s[p + 1] ELSE -1

\* s[p:]
Slice(s, p) == SubSeq(s, p + 1, Len(s))

\* str.startswith(word, p)
StartsWith(s, p, word) ==
    /\ p + Len(word) <= Len(s)
    /\ \A k \in 1..Len(word) : s[p + k] = word[k]

(***************************************************************************)
(* Stage 1: Parser._open_file                                              *)
(***************************************************************************)
\* a line terminator of a file opened in text mode (universal newlines)
IsNewline(c) == c = Chr.nl \/ c = Chr.cr

\* the position of the first line terminator of f at or after p, Len(f) if none
RECURSIVE LineEnd(_, _)
LineEnd(f, p) ==
    IF p >= Len(f) THEN Len(f)
    ELSE IF IsNewline(f[p + 1]) THEN p
    ELSE LineEnd(f, p + 1)

\* how many times the body of `for i, line in enumerate(infile)` runs with i = 0
HasFirstLine(f) == Len(f) > 0

\* every line of the file taken for the line of i = 0
WholeFile(f) == f

\* the line of i = 0, with its terminator when it has one
FirstLine(f) ==
    LET stop == LineEnd(f, 0)
    IN  SubSeq(f, 1, IF stop < Len(f) THEN stop + 1 ELSE stop)

\* the characters str.split() splits on
IsSpace(c) == c \in (9..13) \cup (28..32) \cup {133, 160}

\* line.split(): the records of the line, in order (joined: the separators
\* are gone and nothing stands in their place)
SplitRecords(line) == SelectSeq(line, LAMBDA c : ~IsSpace(c))

\* `if ord(letter) < 34 or ord(letter) > 127: pass / else: raw_data.append(letter)`
KeepLetter(c) == ~(c < 34 \/ c > 127)

\* _open_file: raw_data is bound only inside the body of i = 0, so a file
\* with no line reaches `return ''.join(raw_data)` with raw_data unbound
OpenFileResult(f) ==
    IF HasFirstLine(f)
    THEN [exc |-> "none", val |-> SelectSeq(SplitRecords(FirstLine(f)), KeepLetter)]
    ELSE [exc |-> "UnboundLocalError", val |-> <<>>]

(***************************************************************************)
(* json.JSONDecoder().raw_decode, on texts without `[`, `\`, `N`, `I`      *)
(* (no array, no escape, no NaN/Infinity: the inputs of the model hold     *)
(* none of these characters).  A decoded value is a tagged record:         *)
(*   [t |-> "obj", o |-> <<<<key, value>>, ...>>]  a dict, in key order    *)
(*   [t |-> "str", s |-> <<code points>>]                                  *)
(*   [t |-> "int", n |-> n]                                                *)
(*   [t |-> "float", i |-> n, f |-> digits, x |-> exponent characters]     *)
(*   [t |-> "true"], [t |-> "false"], [t |-> "null"]                       *)
(***************************************************************************)
Fail == [ok |-> FALSE, val |-> None, end |-> 0]
Ok(v, e) == [ok |-> TRUE, val |-> v, end |-> e]

IsJsonWs(c) == c \in {Chr.sp, Chr.tab, Chr.nl, Chr.cr}
IsDigit(c) == c >= Chr.zero /\ c <= Chr.nine

\* WHITESPACE.match(s, p).end()
RECURSIVE SkipWs(_, _)
SkipWs(s, p) == IF IsJsonWs(At(s, p)) THEN SkipWs(s, p + 1) ELSE p

\* the end of the run of digits starting at p
RECURSIVE DigitsEnd(_, _)
DigitsEnd(s, p) == IF IsDigit(At(s, p)) THEN DigitsEnd(s, p + 1) ELSE p

\* int() of a run of digits
RECURSIVE DigitsValue(_)
DigitsValue(ds) ==
    IF ds = <<>> THEN 0
    ELSE 10 * DigitsValue(SubSeq(ds, 1, Len(ds) - 1)) + (ds[Len(ds)] - Chr.zero)

\* scanstring(s, end): end is the position after the opening quote
RECURSIVE ScanString(_, _, _)
ScanString(s, p, acc) ==
    LET c == At(s, p)
    IN  IF c = -1 THEN Fail                                \* unterminated
        ELSE IF c = Chr.quote THEN Ok(acc, p + 1)
        ELSE IF c = Chr.backslash \/ c < 32 THEN Fail      \* strict mode
        ELSE ScanString(s, p + 1, Append(acc, c))

\* NUMBER_RE = (-?(?:0|[1-9]\d*))(\.\d+)?([eE][-+]?\d+)?
MatchNumber(s, p) ==
    LET p0 == IF At(s, p) = Chr.minus THEN p + 1 ELSE p
        intEnd == IF At(s, p0) = Chr.zero THEN p0 + 1 ELSE DigitsEnd(s, p0)
        hasFrac == At(s, intEnd) = Chr.dot /\ IsDigit(At(s, intEnd + 1))
        fracEnd == IF hasFrac THEN DigitsEnd(s, intEnd + 1) ELSE intEnd
        signed == At(s, fracEnd + 1) \in {Chr.plus, Chr.minus}
        expAt == IF signed THEN fracEnd + 2 ELSE fracEnd + 1
        hasExp == At(s, fracEnd) \in {Chr.e, Chr.bigE} /\ IsDigit(At(s, expAt))
        expEnd == IF hasExp THEN DigitsEnd(s, expAt) ELSE fracEnd
        mag == DigitsValue(SubSeq(s, p0 + 1, intEnd))
        int == IF p0 > p THEN 0 - mag ELSE mag
    IN  IF intEnd = p0 THEN Fail
        ELSE IF hasFrac \/ hasExp
        THEN Ok([t |-> "float", i |-> int,
                 f |-> SubSeq(s, intEnd + 2, fracEnd),
                 x |-> SubSeq(s, fracEnd + 2, expEnd)], expEnd)
        ELSE Ok([t |-> "int", n |-> int], intEnd)

\* dict(pairs): a repeated key keeps its first place and takes the last value
HasKey(pairs, k) == \E j \in 1..Len(pairs) : pairs[j][1] = k
DictSet(pairs, k, v) ==
    IF HasKey(pairs, k)
    THEN [j \in 1..Len(pairs) |-> IF pairs[j][1] = k THEN <<k, v>> ELSE pairs[j]]
    ELSE Append(pairs, <<k, v>>)

Word == [null |-> <<110, 117, 108, 108>>, true |-> <<116, 114, 117, 101>>,
         false |-> <<102, 97, 108, 115, 101>>]

RECURSIVE ScanOnce(_, _), JSONObject(_, _), ObjectPairs(_, _, _)

\* py_make_scanner._scan_once(string, idx)
ScanOnce(s, p) ==
    LET c == At(s, p)
    IN  IF c = -1 THEN Fail
        ELSE IF c = Chr.quote
        THEN LET r == ScanString(s, p + 1, <<>>)
             IN  IF r.ok THEN Ok([t |-> "str", s |-> r.val], r.end) ELSE Fail
        ELSE IF c = Chr.lbrace THEN JSONObject(s, p + 1)
        ELSE IF StartsWith(s, p, Word.null) THEN Ok([t |-> "null"], p + 4)
        ELSE IF StartsWith(s, p, Word.true) THEN Ok([t |-> "true"], p + 4)
        ELSE IF StartsWith(s, p, Word.false) THEN Ok([t |-> "false"], p + 5)
        ELSE MatchNumber(s, p)

\* JSONObject((s, end)): end is the position after the opening brace
JSONObject(s, p) ==
    LET p1 == SkipWs(s, p)
        c == At(s, p1)
    IN  IF c = Chr.rbrace THEN Ok([t |-> "obj", o |-> <<>>], p1 + 1)
        ELSE IF c # Chr.quote THEN Fail
        ELSE ObjectPairs(s, p1 + 1, <<>>)

\* the `while True` loop of JSONObject: p is the position after the quote
\* that opens the next key
ObjectPairs(s, p, pairs) ==
    LET k == ScanString(s, p, <<>>)
        p1 == SkipWs(s, k.end)
        v == ScanOnce(s, SkipWs(s, p1 + 1))
        p2 == SkipWs(s, v.end)
        nextchar == At(s, p2)
        p3 == SkipWs(s, p2 + 1)
        more == DictSet(pairs, k.val, v.val)
    IN  IF ~k.ok THEN Fail
        ELSE IF At(s, p1) # Chr.colon THEN Fail
        ELSE IF ~v.ok THEN Fail
        ELSE IF nextchar = Chr.rbrace THEN Ok([t |-> "obj", o |-> more], p2 + 1)
        ELSE IF nextchar # Chr.comma THEN Fail
        ELSE IF At(s, p3) # Chr.quote THEN Fail
        ELSE ObjectPairs(s, p3 + 1, more)

\* decoder.raw_decode(s): ok = FALSE stands for ValueError (JSONDecodeError)
RawDecode(s) == ScanOnce(s, 0)

(***************************************************************************)
(* Stage 2: Parser._extract_json_objects                                   *)
(***************************************************************************)
\* text.rfind('{', pos): the last occurrence instead of the first
RECURSIVE FindLast(_, _, _)
FindLast(text, c, p) ==
    IF p >= Len(text) THEN -1
    ELSE LET later == FindLast(text, c, p + 1)
         IN  IF later # -1 THEN later
             ELSE IF text[p + 1] = c THEN p
             ELSE -1

\* a find that answers the length of the text, not -1, when c is not there
RECURSIVE FindOrEnd(_, _, _)
FindOrEnd(text, c, p) ==
    IF p >= Len(text) THEN Len(text)
    ELSE IF text[p + 1] = c THEN p
    ELSE FindOrEnd(text, c, p + 1)

\* text.find('{', pos)
RECURSIVE Find(_, _, _)
Find(text, c, p) ==
    IF p >= Len(text) THEN -1
    ELSE IF text[p + 1] = c THEN p
    ELSE Find(text, c, p + 1)

\* `pos = match + 1` after the yield as well: the search goes on inside the object
ResumeInsideYield(match, index) == match + 1

\* `pos = match + index + 1`: one character too far
ResumePastYield(match, index) == match + index + 1

\* `pos = match + index`, after the yield
ResumeAfterYield(match, index) == match + index

\* `except ValueError: break`: a failed candidate ends the scan
AbortAfterFailure(text, match) == Len(text)

\* `except ValueError: pos = match`: a failed candidate is tried again
RetryAfterFailure(text, match) == match

\* `except ValueError: pos = match + 1`
ResumeAfterFailure(text, match) == match + 1

\* `if i == 1:`: the second object taken for the metadata
IsSecondIndex(i) == i = 1

\* `if i == 0:` of Parser.__init__
IsMetadataIndex(i) == i = 0

(***************************************************************************)
(* The capture files of the model: every concatenation of at most          *)
(* MaxPieces pieces, and the capture of Scenario A                         *)
(***************************************************************************)
Piece ==
    [ open     |-> <<123>>,                 \* {
      close    |-> <<125>>,                 \* }
      quote    |-> <<34>>,                  \* "
      empty    |-> <<123, 125>>,            \* {}
      objA     |-> <<123, 34, 97, 34, 58, 49, 125>>,   \* {"a":1}
      objB     |-> <<123, 34, 98, 34, 58, 50, 125>>,   \* {"b":2}
      nested   |-> <<123, 34, 97, 34, 58, 123, 34, 98, 34, 58, 50, 125, 125>>,
                                            \* {"a":{"b":2}}
      partial  |-> <<123, 34, 97, 34, 58>>,       \* {"a":
      garbage  |-> <<103, 97, 114, 98, 97, 103, 101>>,
                                            \* garbage
      newline  |-> <<10>>,
      space    |-> <<32>>,
      bang     |-> <<33>>,                  \* !
      del      |-> <<127>>,
      pad      |-> <<128>> ]

Pieces == {Piece[n] : n \in DOMAIN Piece}

RECURSIVE Concat(_)
Concat(ps) == IF ps = <<>> THEN <<>> ELSE Head(ps) \o Concat(Tail(ps))

\* {"dateTime":"01.01.2022 10:00:00"}, a newline, then noise without `{`
ScenarioA ==
    <<123, 34, 100, 97, 116, 101, 84, 105, 109, 101, 34, 58, 34, 48, 49, 46,
    48, 49, 46, 50, 48, 50, 50, 32, 49, 48, 58, 48, 48, 58, 48, 48, 34, 125,
    10, 128, 125, 127, 33>>

\* {"a":1}garbage{"b":2}
ScenarioB == Piece.objA \o Piece.garbage \o Piece.objB

\* attachment filenames, as the pieces that str.endswith tells apart
ReplayName == <<"battle", ".wotreplay">>
OtherName == <<"notes", ".txt">>

\* replay_file.filename.endswith(suffix)
EndsWith(filename, suffix) == Len(filename) > 0 /\ filename[Len(filename)] = suffix

\* the attachments of the referenced message: atts[0] is a replay, or it is not
ReplayAttachments == {<<ReplayName>>, <<ReplayName, OtherName>>}
NoReplayAttachments == {<<>>, <<OtherName>>, <<OtherName, ReplayName>>}

Files ==
    {ScenarioA} \cup
    UNION {{Concat(ps) : ps \in [1..n -> Pieces]} : n \in 0..MaxPieces}

(***************************************************************************)
(* The pipeline: replayinfo's extraction step                              *)
(*   ReplayData(path) -> Replay(path) -> Parser(path)                      *)
(***************************************************************************)
NoReplaysError == "ReplayError: No replays found in message"
NoActiveException == "RuntimeError: No active exception to reraise"
UnboundTempFile == "UnboundLocalError: local variable 'temp_file' referenced before assignment"
NoDataError == "ReplayError: No data found in replay, did you quit before the game ended?"
ExtractError == "ReplayError: Couldn't extract data from replay"

\* before Replay.__init__ has run / before anything was dumped
NoReplay == [battle_data |-> <<>>, meta_data |-> None]
NoDumps == [battle_data_json |-> "absent", meta_data_json |-> "absent"]

\* json.dump(value, file, indent=2): the file holds the text of value
Dumped(value) == [json |-> value]

Init ==
    /\ \/ atts \in ReplayAttachments /\ file \in Files
       \/ atts \in NoReplayAttachments /\ file = <<>>
    /\ temp_file = "unbound"
    /\ BotIdle
    /\ pc = "attachments"
    /\ file_content = <<>>
    /\ pos = 0
    /\ idx = 0
    /\ replay_metadata = None
    /\ battle_data = <<>>
    /\ yielded = <<>>
    /\ skipped = {}
    /\ replay = NoReplay
    /\ disk = NoDumps
    /\ built = <<>>
    /\ raised = "none"
    /\ error = "none"
    /\ runs = <<>>

\* replayinfo, lines 650-655: `if atts := replay_message.attachments:` with
\* `replay_file = atts[0]`; a first attachment of another type reaches the
\* bare `raise` of line 653, which has no exception to re-raise; no
\* attachment reaches `raise ReplayError('No replays found in message')`
CheckAttachments ==
    /\ pc = "attachments"
    /\ IF atts # <<>>
       THEN IF ~EndsWith(atts[1], ".wotreplay")
            THEN error' = NoActiveException /\ pc' = "rejected"
            ELSE pc' = "tempfile" /\ UNCHANGED error
       ELSE error' = NoReplaysError /\ pc' = "rejected"
    /\ UNCHANGED <<botVars, attachVars, runs, file, file_content, pos, idx, replay_metadata,
                   battle_data, yielded, skipped, replay, disk, raised, built>>

\* replayinfo, lines 658-659: temp_file = NamedTemporaryFile(delete=False),
\* temp_file.write(await replay_file.read())
WriteTempFile ==
    /\ pc = "tempfile"
    /\ temp_file' = "open"
    /\ pc' = "open"
    /\ UNCHANGED <<botVars, atts, runs, file, file_content, pos, idx, replay_metadata,
                   battle_data, yielded, skipped, replay, disk, raised, error, built>>

\* replayinfo, lines 695-698: the finally block, entered with an exception
\* on its way out: `with suppress(PermissionError): temp_file.close();
\* os.unlink(temp_file.name)`.  Reading a local that was never assigned
\* raises UnboundLocalError, which suppress(PermissionError) lets through
\* and which takes the place of the exception that was on its way out.
Finally ==
    /\ pc \in {"rejected", "failed"}
    /\ IF temp_file = "unbound"
       THEN error' = UnboundTempFile /\ UNCHANGED temp_file
       ELSE temp_file' = "unlinked" /\ UNCHANGED error
    /\ pc' = "left"
    /\ UNCHANGED <<botVars, atts, runs, file, file_content, pos, idx, replay_metadata,
                   battle_data, yielded, skipped, replay, disk, raised, built>>

\* Parser.__init__, lines 9-12: _open_file returns
OpenFile ==
    /\ pc = "open"
    /\ OpenFileResult(file).exc = "none"
    /\ file_content' = OpenFileResult(file).val
    /\ pos' = 0
    /\ idx' = 0
    /\ battle_data' = <<>>
    /\ replay_metadata' = None
    /\ pc' = "scan"
    /\ UNCHANGED <<botVars, attachVars, runs, file, yielded, skipped, replay, disk, raised, error, built>>

\* Parser.__init__, line 9: _open_file raises, and the exception travels up
\* to the inner try block of replayinfo
OpenFileRaises ==
    /\ pc = "open"
    /\ OpenFileResult(file).exc # "none"
    /\ raised' = OpenFileResult(file).exc
    /\ pc' = "except"
    /\ UNCHANGED <<botVars, attachVars, runs, file, file_content, pos, idx, replay_metadata, battle_data,
                   yielded, skipped, replay, disk, error, built>>

\* one iteration of `while True` that decodes: the generator yields, the
\* body of Parser.__init__'s for loop runs, the generator resumes
ScanYield ==
    /\ pc = "scan"
    /\ LET match == Find(file_content, Chr.lbrace, pos)
           r == RawDecode(Slice(file_content, match))
       IN  /\ match # -1
           /\ r.ok
           /\ yielded' = Append(yielded, [start |-> match, index |-> r.end, obj |-> r.val])
           /\ IF IsMetadataIndex(idx)
              THEN replay_metadata' = r.val /\ UNCHANGED battle_data
              ELSE battle_data' = Append(battle_data, r.val) /\ UNCHANGED replay_metadata
           /\ idx' = idx + 1
           /\ pos' = ResumeAfterYield(match, r.end)
    /\ UNCHANGED <<botVars, attachVars, runs, file, pc, file_content, skipped, replay, disk, raised, error, built>>

\* one iteration of `while True` whose decode raises ValueError
ScanSkip ==
    /\ pc = "scan"
    /\ LET match == Find(file_content, Chr.lbrace, pos)
       IN  /\ match # -1
           /\ ~RawDecode(Slice(file_content, match)).ok
           /\ skipped' = skipped \cup {match}
           /\ pos' = ResumeAfterFailure(file_content, match)
    /\ UNCHANGED <<botVars, attachVars, runs, file, pc, file_content, idx, replay_metadata, battle_data,
                   yielded, replay, disk, raised, error, built>>

\* `if match == -1: break`: the generator is exhausted, Parser.__init__ ends
ScanExit ==
    /\ pc = "scan"
    /\ Find(file_content, Chr.lbrace, pos) = -1
    /\ pc' = "parsed"
    /\ UNCHANGED <<botVars, attachVars, runs, file, file_content, pos, idx, replay_metadata, battle_data,
                   yielded, skipped, replay, disk, raised, error, built>>

\* Replay._extract_data after Parser(self.file_name) has returned
ExtractData ==
    /\ pc = "parsed"
    /\ replay' = [battle_data |-> battle_data, meta_data |-> replay_metadata]
    /\ disk' = [battle_data_json |-> Dumped(battle_data),
                meta_data_json |-> Dumped(replay_metadata)]
    /\ pc' = "extracted"
    /\ UNCHANGED <<botVars, attachVars, runs, file, file_content, pos, idx, replay_metadata, battle_data,
                   yielded, skipped, raised, error, built>>

\* replayinfo, line 665: `if not replay.replay.battle_data: raise ReplayError(..)`
\* inside the inner try block
NoBattleData ==
    /\ pc = "extracted"
    /\ replay.battle_data = <<>>
    /\ raised' = NoDataError
    /\ pc' = "except"
    /\ UNCHANGED <<botVars, attachVars, runs, file, file_content, pos, idx, replay_metadata, battle_data,
                   yielded, skipped, replay, disk, error, built>>

\* replayinfo, line 665: battle data is there, the records are built next
HasBattleData ==
    /\ pc = "extracted"
    /\ replay.battle_data # <<>>
    /\ pc' = "build"
    /\ UNCHANGED <<botVars, attachVars, runs, file, file_content, pos, idx, replay_metadata, battle_data,
                   yielded, skipped, replay, disk, raised, error, built>>

\* replayinfo, lines 667-668: the bare `except:` of the inner try block
BareExcept ==
    /\ pc = "except"
    /\ error' = ExtractError
    /\ pc' = "failed"
    /\ UNCHANGED <<botVars, attachVars, runs, file, file_content, pos, idx, replay_metadata, battle_data,
                   yielded, skipped, replay, disk, raised, built>>

Next ==
    \/ CheckAttachments
    \/ WriteTempFile
    \/ OpenFile
    \/ OpenFileRaises
    \/ ScanYield
    \/ ScanSkip
    \/ ScanExit
    \/ ExtractData
    \/ NoBattleData
    \/ HasBattleData
    \/ BareExcept
    \/ Finally

Spec == Init /\ [][Next]_vars

(***************************************************************************)
(* Stage 3: the record builder (the getters of Replay), on decoded captures *)
(* whose keys are written as strings.  A str value is a sequence of tokens *)
(* (each separator a token of its own), so that str.split is computed.     *)
(***************************************************************************)
IntV(n) == [t |-> "int", n |-> n]
StrV(tokens) == [t |-> "str", s |-> tokens]
ObjV(pairs) == [t |-> "obj", o |-> pairs]
ListV(items) == [t |-> "list", l |-> items]
TrueV == [t |-> "true"]
FalseV == [t |-> "false"]
\* the float 0.0
FloatZero == [t |-> "float", i |-> 0, f |-> <<"0">>, x |-> <<>>]

\* the result of a getter: the exception it raises, or the value it returns
Raise(exc) == [exc |-> exc, val |-> None]
Return(v) == [exc |-> "none", val |-> v]

\* dict operations: key in d, d[key] for a present key, d.get(key, default),
\* list(d.keys())
DictHas(d, k) == HasKey(d.o, k)
DictItem(d, k) == d.o[CHOOSE j \in 1..Len(d.o) : d.o[j][1] = k][2]
DictGet(d, k, default) == IF DictHas(d, k) THEN DictItem(d, k) ELSE default
DictKeys(d) == [j \in 1..Len(d.o) |-> d.o[j][1]]

\* `raw_data = self.battle_data[0]['personal']; battle_id = list(raw_data.keys())[0];
\*  data = raw_data[battle_id]`: the first key in document order is taken
PersonalData(r) ==
    IF r.battle_data = <<>> THEN Raise("IndexError")
    ELSE IF ~DictHas(r.battle_data[1], "personal") THEN Raise("KeyError")
    ELSE LET raw_data == DictItem(r.battle_data[1], "personal")
         IN  IF raw_data.t # "obj" THEN Raise("AttributeError")
             ELSE IF DictKeys(raw_data) = <<>> THEN Raise("IndexError")
             ELSE Return(DictItem(raw_data, DictKeys(raw_data)[1]))

\* get_battle_performance, lines 147-211: <<field, source key, default, access>>
PerformanceTable ==
    <<
       <<"stunned", "stunned", IntV(0), "get">>,
       <<"achievements", "achievements", ListV(<<>>), "get">>,
       <<"direct_hits", "directHits", IntV(0), "get">>,
       <<"damage_assisted_radio", "damageAssistedRadio", IntV(0), "get">>,
       <<"stun_duration", "stunDuration", FloatZero, "get">>,
       <<"win_points", "winPoints", IntV(0), "get">>,
       <<"damaged_while_moving", "damagedWhileMoving", IntV(0), "get">>,
       <<"kills", "kills", IntV(0), "get">>,
       <<"percent_of_total_team_damage", "percentFromTotalTeamDamage", FloatZero, "get">>,
       <<"mark_of_mastery", "markOfMastery", IntV(0), "get">>,
       <<"no_damage_direct_hits_received", "noDamageDirectHitsReceived", IntV(0), "get">>,
       <<"equipment_damage_dealt", "equipmentDamageDealt", IntV(0), "get">>,
       <<"team_kills", "tkills", IntV(0), "get">>,
       <<"shots", "shots", IntV(0), "get">>,
       <<"team", "team", IntV(0), "get">>,
       <<"death_count", "deathCount", IntV(0), "get">>,
       <<"stun_number", "stunNum", IntV(0), "get">>,
       <<"spotted", "spotted", IntV(0), "get">>,
       <<"killer_id", "killerID", IntV(0), "get">>,
       <<"solo_flag_capture", "soloFlagCapture", IntV(0), "get">>,
       <<"marks_on_gun", "marksOnGun", IntV(0), "get">>,
       <<"killed_and_damaged_by_all_squad_mates", "killedAndDamagedByAllSquadmates", IntV(0), "get">>,
       <<"rollouts_count", "rolloutsCount", IntV(0), "get">>,
       <<"health", "health", IntV(0), "get">>,
       <<"stop_respawn", "stopRespawn", FalseV, "get">>,
       <<"team_damage_dealt", "tdamageDealt", IntV(0), "get">>,
       <<"resource_absorbed", "resourceAbsorbed", IntV(0), "get">>,
       <<"damaged_while_enemy_moving", "damagedWhileEnemyMoving", IntV(0), "get">>,
       <<"damage_received", "damageReceived", IntV(0), "get">>,
       <<"percent_from_second_best_damage", "percentFromSecondBestDamage", IntV(0), "get">>,
       <<"committed_suicide", "committedSuicide", FalseV, "get">>,
       <<"life_time", "lifeTime", IntV(0), "get">>,
       <<"damage_assisted_track", "damageAssistedTrack", IntV(0), "get">>,
       <<"sniper_damage_dealt", "sniperDamageDealt", IntV(0), "get">>,
       <<"fairplay_factor", "fairplayFactor10", IntV(0), "get">>,
       <<"damage_blocked_by_armour", "damageBlockedByArmor", IntV(0), "get">>,
       <<"dropped_capture_points", "droppedCapturePoints", IntV(0), "get">>,
       <<"damage_received_from_invisibles", "damageReceivedFromInvisibles", IntV(0), "get">>,
       <<"max_health", "maxHealth", IntV(0), "get">>,
       <<"moving_avg_damage", "movingAvgDamage", IntV(0), "get">>,
       <<"flag_capture", "flagCapture", IntV(0), "get">>,
       <<"kills_before_team_was_damaged", "killsBeforeTeamWasDamaged", IntV(0), "get">>,
       <<"potential_damage_received", "potentialDamageReceived", IntV(0), "get">>,
       <<"direct_team_hits", "directTeamHits", IntV(0), "get">>,
       <<"damage_dealt", "damageDealt", IntV(0), "get">>,
       <<"piercings_received", "piercingsReceived", IntV(0), "get">>,
       <<"piercings", "piercings", IntV(0), "get">>,
       <<"prev_mark_of_mastery", "prevMarkOfMastery", IntV(0), "get">>,
       <<"damaged", "damaged", IntV(0), "get">>,
       <<"death_reason", "deathReason", IntV(0), "get">>,
       <<"capture_points", "capturePoints", IntV(0), "get">>,
       <<"damage_before_team_was_damaged", "damageBeforeTeamWasDamaged", IntV(0), "get">>,
       <<"explosion_hits_received", "explosionHitsReceived", IntV(0), "get">>,
       <<"damage_rating", "damageRating", IntV(0), "get">>,
       <<"meters_driven", "mileage", IntV(0), "get">>,
       <<"explosion_hits", "explosionHits", IntV(0), "get">>,
       <<"direct_hits_received", "directHitsReceived", IntV(0), "get">>,
       <<"is_team_killer", "isTeamKiller", FalseV, "get">>,
       <<"capturing_base", "capturingBase", FalseV, "get">>,
       <<"damage_assisted_stun", "damageAssistedStun", IntV(0), "get">>,
       <<"damage_assisted_smoke", "damageAssistedSmoke", IntV(0), "get">>,
       <<"total_destroyed_modules", "tdestroyedModules", IntV(0), "get">>,
       <<"damage_assisted_inspire", "damageAssistedInspire", IntV(0), "get">>
    >>

\* get_battle_economy, lines 255-301
EconomyTable ==
    <<
       <<"resupply_ammunition", "autoLoadCost", ListV(<<IntV(0)>>), "first">>,
       <<"resupply_consumables", "autoEquipCost", ListV(<<IntV(0)>>), "first">>,
       <<"credits_to_draw", "creditsToDraw", IntV(0), "get">>,
       <<"original_prem_squad_credits", "originalPremSquadCredits", IntV(0), "get">>,
       <<"credits_contribution_in", "creditsContributionIn", IntV(0), "get">>,
       <<"event_credits", "eventCredits", IntV(0), "get">>,
       <<"piggy_bank", "piggyBank", IntV(0), "get">>,
       <<"premium_credits_factor_100", "premiumCreditsFactor100", IntV(0), "get">>,
       <<"original_credits_contribution_in", "originalCreditsContributionIn", IntV(0), "get">>,
       <<"original_credits_penalty", "originalPremSquadCredits", IntV(0), "get">>,
       <<"original_gold", "originalGold", IntV(0), "get">>,
       <<"booster_credits", "boosterCredits", IntV(0), "get">>,
       <<"referral_20_credits", "referral20Credits", IntV(0), "get">>,
       <<"subtotal_event_coin", "subtotalEventCoin", IntV(0), "get">>,
       <<"booster_credits_factor_100", "boosterCreditsFactor100", IntV(0), "get">>,
       <<"credits_contribution_out", "creditsContributionOut", IntV(0), "get">>,
       <<"credits", "originalPremSquadCredits", IntV(0), "get">>,
       <<"gold_replay", "goldReplay", IntV(0), "get">>,
       <<"credits_penalty", "creditsPenalty", IntV(0), "get">>,
       <<"repair", "repair", IntV(0), "get">>,
       <<"original_credits", "originalCredits", IntV(0), "get">>,
       <<"order_credits", "orderCredits", IntV(0), "get">>,
       <<"order_credits_factor_100", "orderCreditsFactor100", IntV(0), "get">>,
       <<"original_crystal", "originalCrystal", IntV(0), "get">>,
       <<"applied_premium_credits_factor_100", "appliedPremiumCreditsFactor100", IntV(0), "get">>,
       <<"prem_squad_credits", "premSquadCredits", IntV(0), "get">>,
       <<"event_gold", "eventGold", IntV(0), "get">>,
       <<"gold", "gold", IntV(0), "get">>,
       <<"original_credits_contribution_in_squad", "originalCreditsContributionInSquad", IntV(0), "get">>,
       <<"original_event_coin", "originalEventCoin", IntV(0), "get">>,
       <<"factual_credits", "factualCredits", IntV(0), "get">>,
       <<"event_coin", "eventCoin", IntV(0), "get">>,
       <<"crystal", "crystal", IntV(0), "get">>,
       <<"crystal_replay", "crystalReplay", IntV(0), "get">>,
       <<"original_credits_to_draw_squad", "originalCreditsToDrawSquad", IntV(0), "get">>,
       <<"subtotal_credits", "subtotalCredits", IntV(0), "get">>,
       <<"credits_replay", "creditsReplay", IntV(0), "get">>,
       <<"event_event_coin", "eventEventCoin", IntV(0), "get">>,
       <<"subtotal_crystal", "subtotalCrystal", IntV(0), "get">>,
       <<"achievement_credits", "achievementCredits", IntV(0), "get">>,
       <<"subtotal_gold", "subtotalGold", IntV(0), "get">>,
       <<"event_crystal", "eventCrystal", IntV(0), "get">>,
       <<"event_coin_replay", "eventCoinReplay", IntV(0), "get">>,
       <<"auto_repair_cost", "autoRepairCost", IntV(0), "get">>,
       <<"original_credits_penalty_squad", "originalCreditsPenaltySquad", IntV(0), "get">>
    >>

\* get_battle_xp, lines 314-368
XPTable ==
    <<
       <<"order_free_xp_factor_100", "orderFreeXPFactor100", IntV(0), "get">>,
       <<"order_xp_factor_100", "orderXPFactor100", IntV(0), "get">>,
       <<"free_xp_replay", "freeXPReplay", IntV(0), "get">>,
       <<"xp_other", "xp/other", IntV(0), "get">>,
       <<"premium_t_men_xp_factor_100", "premiumTmenXPFactor100", IntV(0), "get">>,
       <<"achievement_xp", "achievementXP", IntV(0), "get">>,
       <<"igr_xp_factor_10", "igrXPFactor10", IntV(0), "get">>,
       <<"event_t_men_xp", "eventTMenXP", IntV(0), "get">>,
       <<"premium_plus_xp_factor_100", "premiumPlusXPFactor100", IntV(0), "get">>,
       <<"premium_plus_t_men_xp_factor_100", "premiumPlusTmenXPFactor100", IntV(0), "get">>,
       <<"original_t_men_xp", "originalTMenXP", IntV(0), "get">>,
       <<"referral_20_xp", "referral20XP", IntV(0), "get">>,
       <<"subtotal_t_men_xp", "subtotalTMenXP", IntV(0), "get">>,
       <<"premium_vehicle_xp_factor_100", "premiumVehicleXPFactor100", IntV(0), "get">>,
       <<"additional_xp_factor_100", "additionalXPFactor10", IntV(0), "get">>,
       <<"factual_xp", "factualXP", IntV(0), "get">>,
       <<"order_free_xp", "orderFreeXP", IntV(0), "get">>,
       <<"booster_t_men_xp_factor_100", "boosterTMenXPFactor100", IntV(0), "get">>,
       <<"original_xp", "originalXP", IntV(0), "get">>,
       <<"applied_premium_xp_factor_100", "appliedPremiumXPFactor100", IntV(0), "get">>,
       <<"booster_xp", "boosterXP", IntV(0), "get">>,
       <<"factual_free_xp", "factualFreeXP", IntV(0), "get">>,
       <<"daily_xp_factor_10", "dailyXPFactor10", IntV(0), "get">>,
       <<"event_free_xp", "eventFreeXP", IntV(0), "get">>,
       <<"player_rank_xp_factor_100", "playerRankXPFactor100", IntV(0), "get">>,
       <<"xp_penalty", "xpPenalty", IntV(0), "get">>,
       <<"xp", "xp", IntV(0), "get">>,
       <<"booster_xp_factor_100", "boosterXPFactor100", IntV(0), "get">>,
       <<"order_t_men_xp", "orderTMenXP", IntV(0), "get">>,
       <<"original_xp_penalty", "originalXPPenalty", IntV(0), "get">>,
       <<"order_t_men_xp_factor_100", "orderTMenXPFactor100", IntV(0), "get">>,
       <<"subtotal_xp", "subtotalXP", IntV(0), "get">>,
       <<"squad_xp", "squadXP", IntV(0), "get">>,
       <<"original_free_xp", "originalFreeXP", IntV(0), "get">>,
       <<"xp_assist", "xp/assist", IntV(0), "get">>,
       <<"free_xp", "freeXP", IntV(0), "get">>,
       <<"premium_vehicle_xp", "premiumVehicleXP", IntV(0), "get">>,
       <<"referral_20_xp_factor_100", "referral20XPFactor100", IntV(0), "get">>,
       <<"event_xp", "eventXP", IntV(0), "get">>,
       <<"subtotal_free_xp", "subtotalFreeXP", IntV(0), "get">>,
       <<"achievement_free_xp", "achievementFreeXP", IntV(0), "get">>,
       <<"player_rank_xp", "playerRankXP", IntV(0), "get">>,
       <<"squad_xp_factor_100", "squadXPFactor100", IntV(0), "get">>,
       <<"applied_premium_t_men_xp_factor_100", "appliedPremiumTmenXPFactor100", IntV(0), "get">>,
       <<"booster_t_men_xp", "boosterTMenXP", IntV(0), "get">>,
       <<"xp_attack", "xp/attack", IntV(0), "get">>,
       <<"ref_system_xp_factor_10", "refSystemXPFactor10", IntV(0), "get">>,
       <<"t_men_xp_replay", "tmenXPReplay", IntV(0), "get">>,
       <<"premium_xp_factor_100", "premiumXPFactor100", IntV(0), "get">>,
       <<"t_men_xp", "tmenXP", IntV(0), "get">>,
       <<"booster_free_xp_factor_100", "boosterFreeXPFactor100", IntV(0), "get">>,
       <<"booster_free_xp", "boosterFreeXP", IntV(0), "get">>,
       <<"battle_num", "battleNum", IntV(0), "get">>
    >>

\* one entry of a record: data.get(key, default), or data.get(key, default)[0]
EntryValue(data, entry) ==
    LET v == DictGet(data, entry[2], entry[3])
    IN  IF entry[4] = "get" THEN Return(v)
        ELSE IF v.t # "list" THEN Raise("TypeError")
        ELSE IF v.l = <<>> THEN Raise("IndexError")
        ELSE Return(v.l[1])

\* the dict literal of a getter: entries are evaluated in order, the first
\* that raises ends the getter
BuildFromTable(table, data) ==
    IF data.t # "obj" THEN Raise("AttributeError")
    ELSE LET raising == {j \in 1..Len(table) : EntryValue(data, table[j]).exc # "none"}
             first == CHOOSE j \in raising : \A k \in raising : j <= k
         IN  IF raising # {} THEN Raise(EntryValue(data, table[first]).exc)
             ELSE Return([f \in {table[j][1] : j \in 1..Len(table)} |->
                             EntryValue(data, table[CHOOSE j \in 1..Len(table) : table[j][1] = f]).val])

\* Replay.get_battle_performance / get_battle_economy / get_battle_xp, and the
\* dataclass built from the dict (BattlePerformance(**d) checks no value)
GetFromPersonal(r, table) ==
    LET data == PersonalData(r)
    IN  IF data.exc # "none" THEN data ELSE BuildFromTable(table, data.val)

get_battle_performance(r) == GetFromPersonal(r, PerformanceTable)
get_battle_economy(r) == GetFromPersonal(r, EconomyTable)
get_battle_xp(r) == GetFromPersonal(r, XPTable)

\* str.split(sep) on a sequence of tokens: the parts between the separators
RECURSIVE SplitFrom(_, _, _, _)
SplitFrom(tokens, sep, j, part) ==
    IF j > Len(tokens) THEN <<part>>
    ELSE IF tokens[j] = sep THEN <<part>> \o SplitFrom(tokens, sep, j + 1, <<>>)
    ELSE SplitFrom(tokens, sep, j + 1, Append(part, tokens[j]))

Split(tokens, sep) == SplitFrom(tokens, sep, 1, <<>>)

\* the decimal text of a natural number
RECURSIVE Decimal(_)
Decimal(n) ==
    LET digit == <<"0", "1", "2", "3", "4", "5", "6", "7", "8", "9">>
    IN  IF n < 10 THEN digit[n + 1] ELSE Decimal(n \div 10) \o digit[(n % 10) + 1]

\* str(value)
ToStr(v) ==
    IF v.t = "str" THEN v.s
    ELSE IF v.t = "none" THEN <<"None">>
    ELSE IF v.t = "true" THEN <<"True">>
    ELSE IF v.t = "false" THEN <<"False">>
    ELSE IF v.t = "int" /\ v.n >= 0 THEN <<Decimal(v.n)>>
    ELSE <<"?">>

\* the numeric texts of the model's captures and their values
NumberText ==
    ("00" :> 0) @@ ("01" :> 1) @@ ("10" :> 10) @@ ("12" :> 12) @@ ("31" :> 31) @@
    ("2022" :> 2022) @@ ("1" :> 1) @@ ("2" :> 2) @@ ("3" :> 3) @@ ("7" :> 7) @@
    ("8" :> 8) @@ ("9" :> 9)

\* int(text) of a str given as one token
IntOfText(text) ==
    IF text \in DOMAIN NumberText THEN Return(IntV(NumberText[text])) ELSE Raise("ValueError")

\* int(value)
IntOf(v) ==
    IF v.t = "int" THEN Return(v)
    ELSE IF v.t = "true" THEN Return(IntV(1))
    ELSE IF v.t = "false" THEN Return(IntV(0))
    ELSE IF v.t = "str" THEN (IF Len(v.s) = 1 THEN IntOfText(v.s[1]) ELSE Raise("ValueError"))
    ELSE Raise("TypeError")

\* bool(value)
Truthy(v) ==
    IF v.t = "int" THEN v.n # 0
    ELSE IF v.t = "str" THEN v.s # <<>>
    ELSE IF v.t = "list" THEN v.l # <<>>
    ELSE IF v.t = "obj" THEN v.o # <<>>
    ELSE v.t = "true"

\* datetime.strptime(date_string, '%d.%m.%Y%H:%M:%S')
Strptime(v) ==
    IF v.t # "str" THEN Raise("TypeError")
    ELSE LET d == v.s
             num(j) == NumberText[d[j]]
         IN  IF /\ Len(d) = 10
                /\ d[2] = "." /\ d[4] = "." /\ d[7] = ":" /\ d[9] = ":"
                /\ \A j \in {1, 3, 5, 6, 8, 10} : d[j] \in DOMAIN NumberText
                /\ num(1) \in 1..31 /\ num(3) \in 1..12 /\ num(5) \in 1..9999
                /\ num(6) \in 0..23 /\ num(8) \in 0..59 /\ num(10) \in 0..61
             THEN Return([t |-> "datetime", day |-> num(1), month |-> num(3),
                          year |-> num(5), hour |-> num(6), minute |-> num(8),
                          second |-> num(10)])
             ELSE Raise("ValueError")

\* Replay.replay_date
replay_date(r) ==
    IF r.meta_data.t # "obj" THEN Raise("AttributeError")
    ELSE Strptime(DictGet(r.meta_data, "dateTime", None))

\* `raw_data = self.meta_data`: the arena fields looked up in the metadata
MetaAsCommon(r) == r.meta_data

\* `raw_data = self.battle_data[0]['common']`
CommonData(r) == DictItem(r.battle_data[1], "common")

\* Replay.get_battle_metadata, and MetaData(**d)
get_battle_metadata(r) ==
    LET data == r.meta_data
        common == CommonData(r)
        vehicle == Split(ToStr(DictGet(data, "playerVehicle", None)), "-")
        version == Split(Split(ToStr(DictGet(data, "clientVersionFromXml", None)), "#")[1], "v.")
        account == IntOf(DictGet(data, "playerID", None))
        m(key) == DictGet(data, key, None)
        c(key) == DictGet(common, key, None)
    IN  IF r.battle_data = <<>> THEN Raise("IndexError")
        ELSE IF ~DictHas(r.battle_data[1], "common") THEN Raise("KeyError")
        ELSE IF replay_date(r).exc # "none" THEN replay_date(r)
        ELSE IF Len(vehicle) < 2 THEN Raise("IndexError")
        ELSE IF Len(version) < 2 THEN Raise("IndexError")
        ELSE IF account.exc # "none" THEN account
        ELSE IF common.t # "obj" THEN Raise("AttributeError")
        ELSE Return(
            [ replay_date |-> replay_date(r).val,
              player_vehicle |-> m("playerVehicle"),
              nation |-> StrV(vehicle[1]),
              internal_tank_name |-> StrV(vehicle[2]),
              version |-> StrV(version[2]),
              client_version |-> m("clientVersionFromXml"),
              client_version_executable |-> m("clientVersionFromExe"),
              region_code |-> m("regionCode"),
              account_id |-> account.val,
              server_name |-> m("serverName"),
              map_display_name |-> m("mapDisplayName"),
              map_name |-> m("mapName"),
              gameplay_id |-> m("gameplayID"),
              battle_type_id |-> m("battleType"),
              has_mods |-> m("hasMods"),
              player_name |-> m("playerName"),
              division |-> c("division"),
              gui_type |-> c("guiType"),
              arena_create_time |-> c("arenaCreateTime"),
              duration |-> c("duration"),
              arena_type_id |-> c("arenaTypeID"),
              gas_attack_winner_team |-> c("gasAttackWinnerTeam"),
              winner_team |-> c("winnerTeam"),
              veh_lock_mode |-> c("vehLockMode"),
              bonus_type |-> c("bonusType") ])

\* the keys of a roster entry read with raw_data[key], in the order read
RosterKeys ==
    <<"vehicleType", "team", "clanAbbrev", "isAlive", "forbidInBattleInvitations",
      "igrType", "isTeamKiller", "name">>

\* a fallback entry that reads as the count zero
KillsZero == ObjV(<< <<"frags", IntV(0)>> >>)

\* the marker of `data[2].get(player_id, {'frags': 'N/A'})`
KillsUnknown == ObjV(<< <<"frags", StrV(<<"N/A">>)>> >>)

\* `vehicle[1]`: the second segment taken for the tag
VehicleSecond(vehicle) == vehicle[IF Len(vehicle) >= 2 THEN 2 ELSE 1]

\* 'vehicle_tag': vehicle[-1] and 'vehicle_nation': vehicle[0]
VehicleTag(vehicle) == vehicle[Len(vehicle)]
VehicleNation(vehicle) == vehicle[1]

\* the body of `for player_id in player_ids` of get_battle_players
PlayerRecord(data, player_id) ==
    LET raw_data == DictItem(data[2], player_id)
        missing == {j \in 1..Len(RosterKeys) : ~DictHas(raw_data, RosterKeys[j])}
        vehicle == Split(ToStr(DictItem(raw_data, "vehicleType")), ":")
        id == IntOfText(player_id)
        kills == DictGet(data[3], player_id, KillsUnknown)
    IN  IF raw_data.t # "obj" THEN Raise("TypeError")
        ELSE IF ~DictHas(raw_data, "vehicleType") THEN Raise("KeyError")
        ELSE IF id.exc # "none" THEN id
        ELSE IF missing # {} THEN Raise("KeyError")
        ELSE IF Len(data) < 3 THEN Raise("IndexError")
        ELSE IF kills.t # "obj" THEN Raise("TypeError")
        ELSE IF ~DictHas(kills, "frags") THEN Raise("KeyError")
        ELSE Return(
            [ id |-> id.val,
              fake_name |-> DictGet(raw_data, "fakeName", StrV(<<"None">>)),
              team |-> DictItem(raw_data, "team"),
              clan_tag |-> DictItem(raw_data, "clanAbbrev"),
              vehicle_type |-> DictItem(raw_data, "vehicleType"),
              vehicle_tag |-> StrV(VehicleTag(vehicle)),
              vehicle_nation |-> StrV(VehicleNation(vehicle)),
              is_alive |-> DictItem(raw_data, "isAlive"),
              forbid_in_battle_invitations |-> DictItem(raw_data, "forbidInBattleInvitations"),
              igr_type |-> DictItem(raw_data, "igrType"),
              is_team_killer |-> IF Truthy(DictItem(raw_data, "isTeamKiller")) THEN TrueV ELSE FalseV,
              name |-> DictItem(raw_data, "name"),
              kills |-> DictItem(kills, "frags") ])

\* the keys of the roster object but the last one
PlayerIdsButLast(data) ==
    SubSeq(DictKeys(data[2]), 1, Len(DictKeys(data[2])) - 1)

\* `player_ids = list(data[1].keys())`
PlayerIds(data) == DictKeys(data[2])

\* Replay.get_battle_players, and [BattlePlayer(**player) for player in ...]
get_battle_players(r) ==
    LET data == r.battle_data
        player_ids == PlayerIds(data)
        raising == {j \in 1..Len(player_ids) : PlayerRecord(data, player_ids[j]).exc # "none"}
        first == CHOOSE j \in raising : \A k \in raising : j <= k
    IN  IF Len(data) < 2 THEN Raise("IndexError")
        ELSE IF raising # {} THEN PlayerRecord(data, player_ids[first])
        ELSE Return([j \in 1..Len(player_ids) |-> PlayerRecord(data, player_ids[j]).val])

(***************************************************************************)
(* The decoded captures of the model: one complete capture, and captures   *)
(* that differ from it in the metadata object, in the first battle-data    *)
(* object (common, personal), or in the roster and kills objects           *)
(***************************************************************************)
\* d without key k / d with d[k] = v
Without(d, k) == ObjV(SelectSeq(d.o, LAMBDA pair : pair[1] # k))
With(d, k, v) == ObjV(DictSet(d.o, k, v))

MetaFull ==
    ObjV(<< <<"dateTime", StrV(<<"01", ".", "01", ".", "2022", "10", ":", "00", ":", "00">>)>>,
            <<"playerVehicle", StrV(<<"germany", "-", "G42_Maus">>)>>,
            <<"clientVersionFromXml", StrV(<<"v.", "1.14.0", "#", "224">>)>>,
            <<"clientVersionFromExe", StrV(<<"1.14.0">>)>>,
            <<"regionCode", StrV(<<"EU">>)>>,
            <<"playerID", IntV(1)>>,
            <<"serverName", StrV(<<"EU2">>)>>,
            <<"mapDisplayName", StrV(<<"Prokhorovka">>)>>,
            <<"mapName", StrV(<<"05_prohorovka">>)>>,
            <<"gameplayID", StrV(<<"ctf">>)>>,
            <<"battleType", IntV(1)>>,
            <<"hasMods", FalseV>>,
            <<"playerName", StrV(<<"branko">>)>> >>)

Metas ==
    {MetaFull}
    \cup {Without(MetaFull, k) : k \in {MetaFull.o[j][1] : j \in 1..Len(MetaFull.o)}}
    \cup {With(MetaFull, "battleType", IntV(99)),
          With(MetaFull, "gameplayID", StrV(<<"domination">>)),
          With(MetaFull, "playerVehicle", StrV(<<"Observer">>)),
          With(With(MetaFull, "duration", IntV(999)), "winnerTeam", IntV(2))}

CommonFull ==
    ObjV(<< <<"division", IntV(0)>>, <<"guiType", IntV(1)>>,
            <<"arenaCreateTime", IntV(1640)>>, <<"duration", IntV(300)>>,
            <<"arenaTypeID", IntV(5)>>, <<"gasAttackWinnerTeam", IntV(0)>>,
            <<"winnerTeam", IntV(1)>>, <<"vehLockMode", IntV(0)>>,
            <<"bonusType", IntV(1)>> >>)

Commons ==
    {CommonFull}
    \cup {Without(CommonFull, k) : k \in {CommonFull.o[j][1] : j \in 1..Len(CommonFull.o)}}
    \cup {With(With(CommonFull, "playerName", StrV(<<"other">>)), "battleType", IntV(2))}

\* a source map with every key the model varies, each with a value of its own
FullData ==
    ObjV(<< <<"credits", IntV(11)>>,
            <<"originalPremSquadCredits", IntV(12)>>,
            <<"originalCreditsPenalty", IntV(13)>>,
            <<"additionalXPFactor100", IntV(14)>>,
            <<"additionalXPFactor10", IntV(15)>>,
            <<"xp", IntV(16)>>,
            <<"kills", IntV(3)>>,
            <<"stopRespawn", TrueV>>,
            <<"autoLoadCost", ListV(<<IntV(17), IntV(0)>>)>>,
            <<"achievements", ListV(<<IntV(41)>>)>> >>)

ModelKeys == {FullData.o[j][1] : j \in 1..Len(FullData.o)}

\* the source maps: every subset of the keys, and two malformed values
DataMaps ==
    {ObjV(SelectSeq(FullData.o, LAMBDA pair : pair[1] \in S)) : S \in SUBSET ModelKeys}
    \cup {With(FullData, "autoLoadCost", ListV(<<>>)),
          With(FullData, "kills", StrV(<<"many">>))}

\* the source map of another account
OtherData(j) == ObjV(<< <<"credits", IntV(100 + j)>>, <<"kills", IntV(j)>> >>)

\* a personal map with n account ids, the first of them holding `first`
Personal(n, first) ==
    ObjV([j \in 1..n |-> <<Decimal(j), IF j = 1 THEN first ELSE OtherData(j)>>])

Personals == {Personal(n, d) : n \in 0..MaxAccounts, d \in DataMaps}

FirstFull == ObjV(<< <<"common", CommonFull>>, <<"personal", Personal(1, FullData)>> >>)

Firsts ==
    {With(FirstFull, "common", c) : c \in Commons}
    \cup {With(FirstFull, "personal", p) : p \in Personals}
    \cup {Without(FirstFull, "common"), Without(FirstFull, "personal")}

PlayerId(j) == Decimal(6 + j)

PlayerFull(j) ==
    ObjV(<< <<"vehicleType", StrV(<<"germany", ":", "something", ":", "E-100">>)>>,
            <<"team", IntV(1 + (j % 2))>>,
            <<"clanAbbrev", StrV(<<"RLD">>)>>,
            <<"isAlive", IntV(1)>>,
            <<"forbidInBattleInvitations", FalseV>>,
            <<"igrType", IntV(0)>>,
            <<"isTeamKiller", IntV(0)>>,
            <<"name", StrV(<<"player", Decimal(j)>>)>>,
            <<"fakeName", StrV(<<"fake", Decimal(j)>>)>> >>)

PlayerEntries(j) ==
    {PlayerFull(j)}
    \cup {Without(PlayerFull(j), k) : k \in {PlayerFull(j).o[i][1] : i \in 1..Len(PlayerFull(j).o)}}
    \cup {With(PlayerFull(j), "vehicleType", StrV(<<"ussr", ":", "R04_T-34">>)),
          With(PlayerFull(j), "vehicleType", StrV(<<"Observer">>)),
          With(PlayerFull(j), "isTeamKiller", IntV(1))}

\* a roster of n participants, the last of them holding `last`
RosterOf(n, last) ==
    ObjV([j \in 1..n |-> <<PlayerId(j), IF j = n THEN last ELSE PlayerFull(j)>>])

Rosters == UNION {{RosterOf(n, e) : e \in PlayerEntries(n)} : n \in 0..MaxPlayers}

RosterFull == RosterOf(MaxPlayers, PlayerFull(MaxPlayers))

\* a kills object with an entry for the participants of S
KillsOf(S) ==
    ObjV(SelectSeq([j \in 1..MaxPlayers |-> <<PlayerId(j), ObjV(<< <<"frags", IntV(j)>> >>)>>],
                   LAMBDA pair : \E j \in S : pair[1] = PlayerId(j)))

KillsObjects ==
    {KillsOf(S) : S \in SUBSET (1..MaxPlayers)}
    \cup {With(KillsOf(1..MaxPlayers), PlayerId(1), ObjV(<<>>))}

KillsFull == KillsOf(1..MaxPlayers)

\* what follows the first battle-data object
Tails ==
    {<<>>, <<RosterFull>>, <<RosterFull, KillsFull, ObjV(<<>>)>>}
    \cup {<<ro, KillsFull>> : ro \in Rosters}
    \cup {<<RosterFull, k>> : k \in KillsObjects}

Capture(m, first, tail) == [meta_data |-> m, battle_data |-> <<first>> \o tail]

Captures ==
    {Capture(m, FirstFull, <<RosterFull, KillsFull>>) : m \in Metas}
    \cup {Capture(MetaFull, f, <<RosterFull, KillsFull>>) : f \in Firsts}
    \cup {Capture(MetaFull, FirstFull, tl) : tl \in Tails}

(***************************************************************************)
(* replayinfo, lines 670-682: the records are built from a Replay whose    *)
(* battle_data is not empty                                                *)
(***************************************************************************)
RecInit ==
    /\ replay \in Captures
    /\ atts = <<ReplayName>>
    /\ temp_file = "open"
    /\ BotIdle
    /\ pc = "build"
    /\ built = <<>>
    /\ file = <<>>
    /\ file_content = <<>>
    /\ pos = 0
    /\ idx = 0
    /\ replay_metadata = None
    /\ battle_data = <<>>
    /\ yielded = <<>>
    /\ skipped = {}
    /\ disk = NoDumps
    /\ raised = "none"
    /\ error = "none"
    /\ runs = <<>>

\* the k-th record of replayinfo is built from the getter's result, or the
\* getter's exception leaves replayinfo
BuildRecord(k, name, result) ==
    /\ pc = "build"
    /\ Len(built) = k - 1
    /\ IF result.exc = "none"
       THEN /\ built' = Append(built, <<name, result.val>>)
            /\ pc' = IF k = 6 THEN "built" ELSE "build"
            /\ UNCHANGED error
       ELSE /\ error' = result.exc
            /\ pc' = "failed"
            /\ UNCHANGED built
    /\ UNCHANGED <<botVars, attachVars, runs, file, file_content, pos, idx, replay_metadata, battle_data,
                   yielded, skipped, replay, disk, raised>>

\* lines 670-673: `for id in replay.battle_performance.achievements`
AchievementIds(r) ==
    LET perf == get_battle_performance(r)
    IN  IF perf.exc # "none" THEN perf
        ELSE IF perf.val["achievements"].t \notin {"list", "str", "obj"} THEN Raise("TypeError")
        ELSE Return(perf.val["achievements"])

CollectAchievements == BuildRecord(1, "achievements", AchievementIds(replay))
BattleMetadata == BuildRecord(2, "battle_metadata", get_battle_metadata(replay))
BattlePerformance == BuildRecord(3, "battle_performance", get_battle_performance(replay))
BattlePlayers == BuildRecord(4, "battle_players", get_battle_players(replay))
BattleEconomy == BuildRecord(5, "battle_economy", get_battle_economy(replay))
BattleXP == BuildRecord(6, "battle_xp", get_battle_xp(replay))

\* the values of the members of BattleType, and the names of the members
\* of GameModeType
BattleTypeValues ==
    {1, 2, 3, 6, 7, 8, 9, 10, 11, 12, 1009, 22, 24, 27, 1001, 4, 14, 5, 13, 16, 17}
GameModeNames == {"ctf"}

\* MetaData.gameplay_mode: GameModeType[self.gameplay_id]
gameplay_mode(md) ==
    IF md.gameplay_id.t = "str" /\ Len(md.gameplay_id.s) = 1
       /\ md.gameplay_id.s[1] \in GameModeNames
    THEN Return([enum |-> "GameModeType", name |-> md.gameplay_id.s[1]])
    ELSE Raise("KeyError")

\* MetaData.battle_type: BattleType(self.battle_type_id)
battle_type(md) ==
    IF md.battle_type_id.t = "int" /\ md.battle_type_id.n \in BattleTypeValues
    THEN Return([enum |-> "BattleType", value |-> md.battle_type_id.n])
    ELSE IF md.battle_type_id.t = "true"
    THEN Return([enum |-> "BattleType", value |-> 1])
    ELSE Raise("ValueError")

\* ReplayPaginator.format_page for the MetaData entry, the first page shown:
\* entry.region_code.lower(), entry.gameplay_mode, entry.battle_type are
\* read in this order
MetaPage(md) ==
    IF md.region_code.t # "str" THEN Raise("AttributeError")
    ELSE IF gameplay_mode(md).exc # "none" THEN gameplay_mode(md)
    ELSE IF battle_type(md).exc # "none" THEN battle_type(md)
    ELSE Return([game_mode |-> gameplay_mode(md).val, battle_type |-> battle_type(md).val])

\* replayinfo, line 693: pages.start(ctx) formats the first entry of data,
\* the MetaData record
FormatMetaPage ==
    /\ pc = "built"
    /\ LET page == MetaPage(built[2][2])
       IN  IF page.exc = "none"
           THEN pc' = "shown" /\ UNCHANGED error
           ELSE pc' = "failed" /\ error' = page.exc
    /\ UNCHANGED <<botVars, attachVars, runs, file, file_content, pos, idx, replay_metadata, battle_data,
                   yielded, skipped, replay, disk, raised, built>>

RecNext ==
    \/ CollectAchievements
    \/ BattleMetadata
    \/ BattlePerformance
    \/ BattlePlayers
    \/ BattleEconomy
    \/ BattleXP
    \/ FormatMetaPage

RecSpec == RecInit /\ [][RecNext]_vars

(***************************************************************************)
(* Replay constructions side by side: Replay(file_name) called twice, in   *)
(* any interleaving, in one working directory.  Each call has its own      *)
(* Parser and its own Replay object; battle_data.json and meta_data.json   *)
(* are opened by name, relative to the working directory.                 *)
(***************************************************************************)
Runs == {1, 2}

\* what the first line of a capture file holds / what follows it
Heads ==
    {<<>>, Piece.objA, Piece.objA \o Piece.objB, ScenarioB,
     Piece.partial \o Piece.space \o Piece.nested \o Piece.objB}

Rests ==
    {<<>>, Piece.newline, Piece.newline \o Piece.objB,
     Piece.newline \o Piece.garbage \o Piece.newline \o Piece.objA}

ParFiles == {h \o r : h \in Heads, r \in Rests}

\* the battle data of the constructions that are past their Parser
LeftoverBattleData(p) ==
    LET other == CHOOSE q \in Runs : q # p
    IN  IF runs[other].pc \notin {"new", "raised"} THEN runs[other].battle_data ELSE <<>>

\* `self.battle_data = []` of Parser.__init__: a fresh list for each Parser
InitialBattleData(p) == <<>>

\* list(self._extract_json_objects(text)): the objects the generator yields
\* from pos = p on, in order (from[q] is the rest of the loop with pos = q)
ExtractJsonObjects(text, p) ==
    LET from[q \in 0..Len(text)] ==
            LET match == Find(text, Chr.lbrace, q)
                r == RawDecode(Slice(text, match))
            IN  IF match = -1 THEN <<>>
                ELSE IF r.ok THEN <<r.val>> \o from[ResumeAfterYield(match, r.end)]
                ELSE from[ResumeAfterFailure(text, match)]
    IN  from[p]

\* the objects of index i and later that go to self.battle_data
RECURSIVE BattleObjects(_, _)
BattleObjects(objs, i) ==
    IF i >= Len(objs) THEN <<>>
    ELSE (IF IsMetadataIndex(i) THEN <<>> ELSE <<objs[i + 1]>>) \o BattleObjects(objs, i + 1)

\* Parser.__init__ once _open_file has returned `content`
ParserOf(content, initial) ==
    LET objs == ExtractJsonObjects(content.val, 0)
    IN  IF content.exc # "none"
        THEN [exc |-> content.exc, file_content |-> <<>>,
              replay_metadata |-> None, battle_data |-> <<>>]
        ELSE [exc |-> "none", file_content |-> content.val,
              replay_metadata |-> IF objs # <<>> /\ IsMetadataIndex(0) THEN objs[1] ELSE None,
              battle_data |-> initial \o BattleObjects(objs, 0)]

\* Parser(filename) as a whole, its battle_data starting from `initial`
Parser(f, initial) ==
    CHOOSE c \in {ParserOf(content, initial) : content \in {OpenFileResult(f)}} : TRUE

\* a construction that has not started
NewRun(f) ==
    [file |-> f, pc |-> "new", exc |-> "none", file_content |-> <<>>,
     meta_data |-> None, battle_data |-> <<>>, wrote |-> {}]

\* open(name, 'w') truncates the file; the text of json.dump reaches the file
\* when the with block closes it, from offset 0 on, over what is there
Truncated == [length |-> 0]

Overlay(value, old) ==
    IF old = Truncated \/ old = Dumped(value) THEN Dumped(value)
    ELSE [json |-> value, over |-> old]

ParInit ==
    /\ runs \in [Runs -> {NewRun(f) : f \in ParFiles}]
    /\ disk = NoDumps
    /\ atts = <<>>
    /\ temp_file = "unbound"
    /\ BotIdle
    /\ pc = "runs"
    /\ file = <<>>
    /\ file_content = <<>>
    /\ pos = 0
    /\ idx = 0
    /\ replay_metadata = None
    /\ battle_data = <<>>
    /\ yielded = <<>>
    /\ skipped = {}
    /\ replay = NoReplay
    /\ built = <<>>
    /\ raised = "none"
    /\ error = "none"

\* lines 82-84: c = Parser(self.file_name); self.battle_data, self.meta_data
Construct(p) ==
    \E c \in {Parser(runs[p].file, InitialBattleData(p))} :
        /\ runs[p].pc = "new"
        /\ c.exc = "none"
        /\ runs' = [runs EXCEPT ![p].pc = "parsed",
                                ![p].file_content = c.file_content,
                                ![p].meta_data = c.replay_metadata,
                                ![p].battle_data = c.battle_data]
        /\ UNCHANGED <<botVars, attachVars, file, pc, file_content, pos, idx, replay_metadata, battle_data,
                       yielded, skipped, replay, disk, built, raised, error>>

\* line 82: Parser raises, Replay.__init__ ends with the exception
ConstructRaises(p) ==
    \E c \in {Parser(runs[p].file, InitialBattleData(p))} :
        /\ runs[p].pc = "new"
        /\ c.exc # "none"
        /\ runs' = [runs EXCEPT ![p].pc = "raised", ![p].exc = c.exc]
        /\ UNCHANGED <<botVars, attachVars, file, pc, file_content, pos, idx, replay_metadata, battle_data,
                       yielded, skipped, replay, disk, built, raised, error>>

\* line 87: open('battle_data.json', 'w', encoding='utf-8')
OpenBattleDump(p) ==
    /\ runs[p].pc = "parsed"
    /\ disk' = [disk EXCEPT !.battle_data_json = Truncated]
    /\ runs' = [runs EXCEPT ![p].pc = "battle_open",
                            ![p].wrote = @ \cup {"battle_data.json"}]
    /\ UNCHANGED <<botVars, attachVars, file, pc, file_content, pos, idx, replay_metadata, battle_data,
                   yielded, skipped, replay, built, raised, error>>

\* line 88: json.dump(self.battle_data, file, indent=2), and the file is closed
WriteBattleDump(p) ==
    /\ runs[p].pc = "battle_open"
    /\ disk' = [disk EXCEPT !.battle_data_json = Overlay(runs[p].battle_data, @)]
    /\ runs' = [runs EXCEPT ![p].pc = "battle_closed"]
    /\ UNCHANGED <<botVars, attachVars, file, pc, file_content, pos, idx, replay_metadata, battle_data,
                   yielded, skipped, replay, built, raised, error>>

\* line 89: open('meta_data.json', 'w', encoding='utf-8')
OpenMetaDump(p) ==
    /\ runs[p].pc = "battle_closed"
    /\ disk' = [disk EXCEPT !.meta_data_json = Truncated]
    /\ runs' = [runs EXCEPT ![p].pc = "meta_open",
                            ![p].wrote = @ \cup {"meta_data.json"}]
    /\ UNCHANGED <<botVars, attachVars, file, pc, file_content, pos, idx, replay_metadata, battle_data,
                   yielded, skipped, replay, built, raised, error>>

\* line 90: json.dump(self.meta_data, file, indent=2), and the file is closed
WriteMetaDump(p) ==
    /\ runs[p].pc = "meta_open"
    /\ disk' = [disk EXCEPT !.meta_data_json = Overlay(runs[p].meta_data, @)]
    /\ runs' = [runs EXCEPT ![p].pc = "done"]
    /\ UNCHANGED <<botVars, attachVars, file, pc, file_content, pos, idx, replay_metadata, battle_data,
                   yielded, skipped, replay, built, raised, error>>

ParNext ==
    \E p \in Runs :
        \/ Construct(p)
        \/ ConstructRaises(p)
        \/ OpenBattleDump(p)
        \/ WriteBattleDump(p)
        \/ OpenMetaDump(p)
        \/ WriteMetaDump(p)

ParSpec == ParInit /\ [][ParNext]_vars

(***************************************************************************)
(* Properties of stage 1 and stage 2                                       *)
(***************************************************************************)
\* a well-formed JSON object starts at position p of the extracted text
Decodable(p) ==
    /\ At(file_content, p) = Chr.lbrace
    /\ RawDecode(Slice(file_content, p)).ok

\* the scanner yielded the object that starts at p
YieldedAt(p) ==
    \E j \in 1..Len(yielded) :
        /\ yielded[j].start = p
        /\ yielded[j].obj = RawDecode(Slice(file_content, p)).val

\* p lies inside an object the scanner yielded (the object at p is nested in it)
InsideYielded(p) ==
    \E j \in 1..Len(yielded) :
        yielded[j].start < p /\ p < yielded[j].start + yielded[j].index

\* C1: a `{` whose decode fails does not end the scan: when the scanner has
\* finished, every well-formed object that starts after a failed candidate
\* has been yielded (or is part of a yielded object that encloses it).
C1_ScanContinuesAfterFailure ==
    pc = "parsed" =>
        \A q \in skipped : \A p \in (q + 1)..(Len(file_content) - 1) :
            Decodable(p) => YieldedAt(p) \/ InsideYielded(p)

\* a finished scan that yielded an object found after a failed candidate
C1_Witness ==
    /\ pc = "parsed"
    /\ \E q \in skipped : \E j \in 1..Len(yielded) : yielded[j].start > q

ObjA == [t |-> "obj", o |-> << << <<97>>, [t |-> "int", n |-> 1] >> >>]
ObjB == [t |-> "obj", o |-> << << <<98>>, [t |-> "int", n |-> 2] >> >>]

\* C2: objects are yielded in left-to-right order of their starting position,
\* and {"a":1}garbage{"b":2} yields exactly {"a":1} then {"b":2}.
C2_YieldOrder ==
    /\ \A j, k \in 1..Len(yielded) : j < k => yielded[j].start < yielded[k].start
    /\ (pc = "parsed" /\ file_content = ScenarioB) =>
           [j \in 1..Len(yielded) |-> yielded[j].obj] = <<ObjA, ObjB>>

\* the scan of Scenario B has finished with its two objects
C2_Witness ==
    /\ pc = "parsed"
    /\ file_content = ScenarioB
    /\ Len(yielded) = 2

\* C3: every iteration of the scanner, decoding or failing, moves pos
\* strictly forward and never past the end of the text, so the scanner has
\* made at most pos iterations and exits after at most Len(text) of them;
\* when no `{` remains the exit is open.
C3_ScanTerminates ==
    /\ [][(ScanYield \/ ScanSkip) => (pos < pos' /\ pos' <= Len(file_content))]_vars
    /\ [](pc = "scan" => Cardinality(skipped) + Len(yielded) <= pos)
    /\ [](pc = "scan" /\ pos = Len(file_content) => ENABLED ScanExit)

\* the exit was reached after iterations of both kinds
C3_Witness ==
    /\ pc = "parsed"
    /\ skipped # {}
    /\ yielded # <<>>

\* C4: a capture that parses to fewer than 2 decoded objects is reported to
\* the caller as the distinct `no usable battle data` condition.
C4_UnusableCaptureReported ==
    (pc = "failed" /\ HasFirstLine(file) /\ Len(yielded) < 2) => error = NoDataError

\* C6: the extracted text is exactly the characters of the first line whose
\* code point is in 33..127, in order.
C6_KeepsPrintableBand ==
    pc = "scan" =>
        file_content = SelectSeq(FirstLine(file), LAMBDA c : c >= 33 /\ c <= 127)

\* C7: no file content makes stage 1 or stage 2 fail, and an empty extracted
\* text gives zero decoded objects.
C7_NoContentFailure ==
    /\ raised \in {"none", NoDataError}
    /\ (pc = "parsed" /\ file_content = <<>>) => yielded = <<>>

\* C8: after Parser construction over n yielded objects, replay_metadata is
\* the first (None when n = 0) and battle_data is the other n - 1, in order.
C8_MetadataThenBattleData ==
    pc = "parsed" =>
        /\ replay_metadata = IF yielded = <<>> THEN None ELSE yielded[1].obj
        /\ battle_data = [j \in 1..(Len(yielded) - 1) |-> yielded[j + 1].obj]

\* a Parser built over three objects
C8_Witness ==
    /\ pc = "parsed"
    /\ Len(yielded) = 3
    /\ Len(battle_data) = 2

(***************************************************************************)
(* Properties of the record builder                                        *)
(***************************************************************************)
\* the condition the record builder is to raise for a personal map that
\* does not have exactly one key
AmbiguousAccountError == "AmbiguousAccount"

\* the number of keys of the personal map, -1 when there is no personal map
PersonalKeyCount ==
    IF replay.battle_data # <<>> /\ DictHas(replay.battle_data[1], "personal")
    THEN Len(DictItem(replay.battle_data[1], "personal").o)
    ELSE -1

\* the record built under `name`
HasBuilt(name) == \E b \in 1..Len(built) : built[b][1] = name
Built(name) == built[CHOOSE b \in 1..Len(built) : built[b][1] = name][2]

\* C5: when the personal map does not have exactly one key, building the
\* performance, economy or XP record raises the `ambiguous account`
\* condition, and no record is built from one of the keys.
C5_AmbiguousAccountReported ==
    (PersonalKeyCount \notin {-1, 1} /\ (built # <<>> \/ pc = "failed")) =>
        (pc = "failed" /\ error = AmbiguousAccountError /\ built = <<>>)

\* C9: in a capture with a battle-data object and a single account, the
\* record builder raises nothing but the two named conditions: every other
\* missing piece of data is defaulted.
C9_OnlyNamedConditions ==
    (pc = "failed" /\ PersonalKeyCount = 1) =>
        error \in {NoDataError, AmbiguousAccountError}

\* the source key a record field is named after
OwnKey(table, field) ==
    IF field = "credits" THEN "credits"
    ELSE IF field = "original_credits_penalty" THEN "originalCreditsPenalty"
    ELSE IF field = "additional_xp_factor_100" THEN "additionalXPFactor100"
    ELSE table[CHOOSE j \in 1..Len(table) : table[j][1] = field][2]

IsZeroOrFalse(v) == v \in {IntV(0), FloatZero, FalseV}

\* every field of the record built under `name` whose own key the source
\* map omits holds 0 or false (achievements is a list, not a number)
DefaultsHold(name, table) ==
    HasBuilt(name) =>
        \A field \in DOMAIN Built(name) :
            (field # "achievements"
             /\ ~DictHas(PersonalData(replay).val, OwnKey(table, field)))
                => IsZeroOrFalse(Built(name)[field])

\* C10: for every field of the performance, economy and XP records and every
\* source map that omits the field's key, the built record holds 0 or false
\* for the field.
C10_MissingFieldDefaults ==
    PersonalKeyCount = 1 =>
        /\ DefaultsHold("battle_performance", PerformanceTable)
        /\ DefaultsHold("battle_economy", EconomyTable)
        /\ DefaultsHold("battle_xp", XPTable)

\* the `unknown` marker of a kill count
UnknownKills == StrV(<<"N/A">>)

\* the kills field of the BattlePlayer record built for the j-th roster key
KillsField(j) == Built("battle_players")[j].kills

\* C11: for every player id of the roster object that the kills object does
\* not hold, the BattlePlayer record's kills is the `unknown` marker, which
\* is not equal to the integer 0; for an id the kills object holds, kills is
\* that id's own frags value.
C11_UnknownKillsMarker ==
    HasBuilt("battle_players") =>
        LET data == replay.battle_data
            player_ids == DictKeys(data[2])
        IN  /\ Len(Built("battle_players")) = Len(player_ids)
            /\ \A j \in 1..Len(player_ids) :
                   IF DictHas(data[3], player_ids[j])
                   THEN KillsField(j) = DictItem(DictItem(data[3], player_ids[j]), "frags")
                   ELSE KillsField(j) = UnknownKills /\ KillsField(j) # IntV(0)

\* a roster of two participants has been turned into records, one with its
\* own frags value and one with no entry in the kills object
C11_Witness ==
    /\ HasBuilt("battle_players")
    /\ \E j, k \in 1..Len(Built("battle_players")) :
           /\ ~DictHas(replay.battle_data[3], DictKeys(replay.battle_data[2])[j])
           /\ KillsField(j) = UnknownKills
           /\ DictHas(replay.battle_data[3], DictKeys(replay.battle_data[2])[k])
           /\ KillsField(k).t = "int"


\* the fields of a record that hold a number: those read with
\* data.get(key, 0) or data.get(key, 0.0)
NumberFields(table) ==
    {table[j][1] : j \in {k \in 1..Len(table) :
                              table[k][4] = "get" /\ table[k][3].t \in {"int", "float"}}}

\* no number field of the record built under `name` carries a value that is
\* not a number
NumbersHold(name, table) ==
    HasBuilt(name) =>
        \A field \in NumberFields(table) :
            Built(name)[field].t \in {"int", "float", "true", "false"}

\* C12: a value of an unexpected shape in a source map (a string where a
\* number is expected) is not swallowed: no performance, economy or XP
\* record is built that carries the malformed value, the construction fails.
C12_MalformedValueSurfaces ==
    /\ NumbersHold("battle_performance", PerformanceTable)
    /\ NumbersHold("battle_economy", EconomyTable)
    /\ NumbersHold("battle_xp", XPTable)


(***************************************************************************)
(* Properties of Replay constructions side by side                         *)
(***************************************************************************)
\* the construction has returned or raised
Finished(p) == runs[p].pc \in {"done", "raised"}

\* what the construction of f holds when it runs alone
Alone(f) == Parser(f, <<>>)

\* C13: two Replay constructions over different capture files share no
\* location: neither writes a location, in memory or on disk, that the
\* other writes, and each ends with the result it has when it runs alone.
C13_NoSharedLocation ==
    \A p, q \in DOMAIN runs :
        (p # q /\ runs[p].file # runs[q].file) =>
            /\ runs[p].wrote \cap runs[q].wrote = {}
            /\ (runs[p].pc = "done") =>
                   /\ runs[p].battle_data = Alone(runs[p].file).battle_data
                   /\ runs[p].meta_data = Alone(runs[p].file).replay_metadata


(***************************************************************************)
(* Properties of the scanner on texts with one object or none              *)
(***************************************************************************)
\* the positions of the extracted text where a well-formed object starts
ObjectStarts == {p \in 0..(Len(file_content) - 1) : Decodable(p)}

\* the extracted text contains exactly one well-formed JSON object
OneObject == Cardinality(ObjectStarts) = 1

\* the finished scan yielded the one object of the text and nothing else
YieldedTheObject ==
    /\ Len(yielded) = 1
    /\ \A p \in ObjectStarts : YieldedAt(p)

\* C14 as stated: for a text with exactly one well-formed object the scanner
\* yields exactly that object and stops, and the position it resumes from
\* after the yield equals the length of the text.
C14_ResumesAtTextLength ==
    (pc = "parsed" /\ OneObject) =>
        /\ YieldedTheObject
        /\ ResumeAfterYield(yielded[1].start, yielded[1].index) = Len(file_content)

\* C14 amended: for a text with exactly one well-formed object the scanner
\* yields exactly that object and stops, and the position it resumes from
\* after the yield is the position just past the object: the text between
\* the object's `{` and that position is the object and nothing more.
C14_ResumesPastObject ==
    /\ []((pc = "parsed" /\ OneObject) => YieldedTheObject)
    /\ [][(OneObject /\ Len(yielded') = Len(yielded) + 1) =>
              LET y == yielded'[Len(yielded')]
                  between == SubSeq(file_content, y.start + 1, pos')
                  r == RawDecode(between)
              IN  /\ pos' <= Len(file_content)
                  /\ r.ok
                  /\ r.val = y.obj
                  /\ r.end = Len(between)]_vars

\* the scan of a text with one object, followed by characters that are not
\* part of it, has finished
C14_Witness ==
    /\ pc = "parsed"
    /\ OneObject
    /\ Len(yielded) = 1
    /\ pos = yielded[1].start + yielded[1].index
    /\ pos < Len(file_content)


\* the extracted text holds no `{`
NoBrace == \A j \in 1..Len(file_content) : file_content[j] # Chr.lbrace

\* C15: on a text with no `{`, the empty text included, the scanner yields
\* nothing and ends normally: its one step is the exit, and nothing was
\* yielded, skipped or raised.
C15_NoBraceYieldsNothing ==
    /\ []((pc \in {"scan", "parsed"} /\ NoBrace) =>
              (yielded = <<>> /\ skipped = {} /\ raised = "none"))
    /\ [][(pc = "scan" /\ NoBrace) => (pc' = "parsed" /\ yielded' = <<>>)]_vars

\* the scan of a text that is not empty and holds no `{` has finished
C15_Witness ==
    /\ pc = "parsed"
    /\ NoBrace
    /\ file_content # <<>>
    /\ yielded = <<>>


(***************************************************************************)
(* Properties of what a construction depends on                            *)
(***************************************************************************)
\* the characters of f before its first line terminator
LineOne(f) == SubSeq(f, 1, LineEnd(f, 0))

\* the construction is past its Parser
Constructed(p) == runs[p].pc \notin {"new", "raised"}

\* C16: what is extracted depends on the first line of the file only: two
\* files with the same first line and different later lines give the same
\* extracted text and the same decoded objects (metadata and battle data,
\* which are all the records are built from).
C16_FirstLineOnly ==
    \A p, q \in DOMAIN runs :
        (/\ HasFirstLine(runs[p].file) /\ HasFirstLine(runs[q].file)
         /\ LineOne(runs[p].file) = LineOne(runs[q].file)
         /\ runs[p].pc # "new" /\ runs[q].pc # "new") =>
            /\ Constructed(p) /\ Constructed(q)
            /\ runs[p].file_content = runs[q].file_content
            /\ runs[p].meta_data = runs[q].meta_data
            /\ runs[p].battle_data = runs[q].battle_data

\* two files with the same first line, one of them with a well-formed
\* object on a later line, have been parsed to a metadata object
C16_Witness ==
    \E p, q \in DOMAIN runs :
        /\ runs[p].file # runs[q].file
        /\ LineOne(runs[p].file) = LineOne(runs[q].file)
        /\ Len(runs[q].file) > Len(LineOne(runs[q].file)) + 1
        /\ \E j \in 1..Len(runs[q].file) :
               j > Len(LineOne(runs[q].file)) /\ runs[q].file[j] = Chr.lbrace
        /\ runs[p].pc = "done" /\ runs[q].pc = "done"
        /\ runs[p].meta_data # None


C18_UnknownCodeReadable ==
    (/\ HasBuilt("battle_metadata")
     /\ DictHas(replay.meta_data, "battleType")
     /\ DictHas(replay.meta_data, "gameplayID")) =>
        LET md == Built("battle_metadata")
        IN  /\ md.battle_type_id = DictItem(replay.meta_data, "battleType")
            /\ md.gameplay_id = DictItem(replay.meta_data, "gameplayID")
            /\ battle_type(md).exc = "none"
            /\ gameplay_mode(md).exc = "none"
            /\ (pc = "failed" => error \notin {"KeyError", "ValueError"})


(***************************************************************************)
(* Properties of the player records                                        *)
(***************************************************************************)
\* the positions of the colons of a vehicle-type string
Colons(tokens) == {j \in 1..Len(tokens) : tokens[j] = ":"}

\* what stands before the first colon / after the last colon
FirstSegment(tokens) ==
    IF Colons(tokens) = {} THEN tokens
    ELSE SubSeq(tokens, 1, (CHOOSE j \in Colons(tokens) : \A k \in Colons(tokens) : j <= k) - 1)
LastSegment(tokens) ==
    IF Colons(tokens) = {} THEN tokens
    ELSE SubSeq(tokens, (CHOOSE j \in Colons(tokens) : \A k \in Colons(tokens) : j >= k) + 1,
                Len(tokens))

\* C19: the vehicle-type string of a roster entry is split on colons, the
\* nation is its first segment and the tag its last segment, whatever the
\* number of segments; germany:something:E-100 gives germany and E-100.
C19_VehicleSegments ==
    HasBuilt("battle_players") =>
        \A j \in 1..Len(Built("battle_players")) :
            LET player == Built("battle_players")[j]
            IN  /\ player.vehicle_nation = StrV(FirstSegment(player.vehicle_type.s))
                /\ player.vehicle_tag = StrV(LastSegment(player.vehicle_type.s))
                /\ player.vehicle_type = StrV(<<"germany", ":", "something", ":", "E-100">>) =>
                       /\ player.vehicle_nation = StrV(<<"germany">>)
                       /\ player.vehicle_tag = StrV(<<"E-100">>)

\* records were built for a roster with a vehicle type of three segments and
\* one of another number of segments
C19_Witness ==
    /\ HasBuilt("battle_players")
    /\ \E j, k \in 1..Len(Built("battle_players")) :
           /\ Cardinality(Colons(Built("battle_players")[j].vehicle_type.s)) = 2
           /\ Cardinality(Colons(Built("battle_players")[k].vehicle_type.s)) # 2


\* the fields of the MetaData record that name the player, vehicle, map and
\* server, and the arena-level fields, each with the key it is read from
IdentityFields ==
    << <<"player_vehicle", "playerVehicle">>, <<"client_version", "clientVersionFromXml">>,
       <<"client_version_executable", "clientVersionFromExe">>,
       <<"region_code", "regionCode">>, <<"server_name", "serverName">>,
       <<"map_display_name", "mapDisplayName">>, <<"map_name", "mapName">>,
       <<"gameplay_id", "gameplayID">>, <<"battle_type_id", "battleType">>,
       <<"has_mods", "hasMods">>, <<"player_name", "playerName">> >>
ArenaFields ==
    << <<"duration", "duration">>, <<"winner_team", "winnerTeam">>,
       <<"division", "division">>, <<"bonus_type", "bonusType">>,
       <<"gui_type", "guiType">>, <<"arena_create_time", "arenaCreateTime">>,
       <<"arena_type_id", "arenaTypeID">> >>

\* C20: the metadata record merges two sources: the identity fields hold
\* what the metadata object holds under their key, the arena-level fields
\* hold what the `common` map of the first battle-data object holds under
\* theirs, also when the metadata object has a key of the same name.
C20_MetadataMergesTwoSources ==
    HasBuilt("battle_metadata") =>
        LET md == Built("battle_metadata")
            common == DictItem(replay.battle_data[1], "common")
        IN  /\ \A j \in 1..Len(IdentityFields) :
                   md[IdentityFields[j][1]] = DictGet(replay.meta_data, IdentityFields[j][2], None)
            /\ \A j \in 1..Len(ArenaFields) :
                   md[ArenaFields[j][1]] = DictGet(common, ArenaFields[j][2], None)
            /\ md.account_id = DictItem(replay.meta_data, "playerID")

\* a record was built from a metadata object that has a duration of its own
C20_Witness ==
    /\ HasBuilt("battle_metadata")
    /\ DictHas(replay.meta_data, "duration")
    /\ DictItem(replay.meta_data, "duration") # Built("battle_metadata").duration
    /\ Built("battle_metadata").duration = IntV(300)


\* C21: get_battle_players returns exactly one BattlePlayer record per key
\* of the roster object, both teams together: the j-th record's id is the
\* j-th key, no participant is left out and none comes twice.
C21_OneRecordPerParticipant ==
    HasBuilt("battle_players") =>
        LET players == Built("battle_players")
            keys == DictKeys(replay.battle_data[2])
        IN  /\ Len(players) = Len(keys)
            /\ \A j \in 1..Len(keys) : players[j].id = IntV(NumberText[keys[j]])
            /\ \A j, k \in 1..Len(players) : j # k => players[j].id # players[k].id
            /\ {players[j].team : j \in 1..Len(players)}
                   = {DictItem(DictItem(replay.battle_data[2], keys[j]), "team") : j \in 1..Len(keys)}

\* records were built for a roster with participants of both teams
C21_Witness ==
    /\ HasBuilt("battle_players")
    /\ Len(Built("battle_players")) >= 2
    /\ \E j, k \in 1..Len(Built("battle_players")) :
           Built("battle_players")[j].team # Built("battle_players")[k].team


(***************************************************************************)
(* Properties of the spans of the yielded objects                          *)
(***************************************************************************)
\* the span of the j-th yielded object: from its `{` to its closing `}`
SpanEnd(j) == yielded[j].start + yielded[j].index

\* C22: after a decode at candidate index m that consumed k characters the
\* next search starts at m + k, the character just after the closing brace
\* of the object; so the spans of the yielded objects do not overlap, and an
\* object nested in a yielded object is not yielded on its own.
C22_ResumeAfterClosingBrace ==
    /\ [][Len(yielded') = Len(yielded) + 1 =>
              LET j == Len(yielded')
              IN  /\ pos' = yielded'[j].start + yielded'[j].index
                  /\ At(file_content, pos' - 1) = Chr.rbrace
                  /\ At(file_content, yielded'[j].start) = Chr.lbrace]_vars
    /\ [](\A j, k \in 1..Len(yielded) : j < k => SpanEnd(j) <= yielded[k].start)
    /\ [](\A p \in 0..(Len(file_content) - 1) :
              InsideYielded(p) => \A j \in 1..Len(yielded) : yielded[j].start # p)

\* the scan has finished after it yielded an object that has a well-formed
\* object nested in it
C22_Witness ==
    /\ pc = "parsed"
    /\ \E p \in 0..(Len(file_content) - 1) : InsideYielded(p) /\ Decodable(p)


(***************************************************************************)
(* Properties of the keys the economy and XP records are read from         *)
(***************************************************************************)
\* every field of the record built under `name` that is read with
\* data.get(key, default) holds what the source map holds under the key the
\* field is named after, and no key is read for two fields
ReadsOwnKeys(name, table) ==
    HasBuilt(name) =>
        /\ \A j \in 1..Len(table) :
               table[j][4] = "get" =>
                   Built(name)[table[j][1]]
                       = DictGet(PersonalData(replay).val, OwnKey(table, table[j][1]), table[j][3])
        /\ \A j, k \in 1..Len(table) : j # k => table[j][2] # table[k][2]

\* C30: each field of the economy and XP records is read from its own source
\* key and from no other: the field holds the value of the key it is named
\* after, and no two fields of a record read the same key.
C30_EachFieldOwnKey ==
    PersonalKeyCount = 1 =>
        /\ ReadsOwnKeys("battle_economy", EconomyTable)
        /\ ReadsOwnKeys("battle_xp", XPTable)


(***************************************************************************)
(* C29: the error of a message without a replay                            *)
(***************************************************************************)
ReplayErrors == {NoReplaysError, NoDataError, ExtractError}

\* the referenced message has no attachment, or its first attachment is not
\* a .wotreplay file
NoReplayFound == atts = <<>> \/ ~EndsWith(atts[1], ".wotreplay")

\* C29: in replayinfo, when the referenced message has no attachment or its
\* first attachment is not a .wotreplay file, the error that reaches the
\* caller is the ReplayError raised for that case: the cleanup of the
\* finally block does not put another exception in its place.
C29_ReplayErrorReachesCaller ==
    (pc = "left" /\ NoReplayFound) => error \in ReplayErrors


(***************************************************************************)
(* The reminders: Bot.start_timer, Bot.delete_reminder, on_reminder_due    *)
(* and the `reminder remove` command.  A reminder is a row of the          *)
(* reminders table; at startup every row gets a start_timer task           *)
(* (events.py, line 270).  The sleep task of a timer is named by the id of *)
(* its reminder; its state is kept with the timer.                         *)
(***************************************************************************)
ReminderIds == 1..MaxReminders
Users == {1, 2}

\* (reminder.ends_at - datetime.now()).total_seconds() when start_timer runs
Seconds == {-60, 0, 60}

\* the xo, po and co roles of the two guilds, and what else a member can hold
ModeratorRoles == {"xo", "po", "co"}

\* ctx.author of an invocation: id, whether bot.is_owner holds, role ids
Authors ==
    {[id |-> 1, owner |-> FALSE, roles |-> {"everyone"}],
     [id |-> 2, owner |-> FALSE, roles |-> {"everyone"}],
     [id |-> 2, owner |-> FALSE, roles |-> {"everyone", "po"}],
     [id |-> 2, owner |-> TRUE, roles |-> {"everyone"}]}

\* Reminder(*row): the fields that the code below reads
Reminder(id, creator_id) == [id |-> id, creator_id |-> creator_id]

\* the attributes that Bot.__init__ sets on the bot, lines 264-300, and the
\* ones it inherits that are read here; `bot` is not among them
BotAttributes == {"REMINDER_TASKS", "MUSIC_PLAYERS", "CONN", "loop", "user"}

\* `seconds >= 0`
IsNotPast(seconds) == seconds >= 0
\* start_timer, line 461: `if seconds > 0`
IsFuture(seconds) == seconds > 0

\* is_moderator(ctx): the owner, or a member with one of the moderator roles
is_moderator(author) ==
    IF author.owner = FALSE
    THEN \E r \in author.roles : r \in ModeratorRoles
    ELSE TRUE

\* anyone passes
AnyoneOwns(reminder, author) == TRUE
\* _reminder_remove, line 453: `reminder.creator.id != ctx.author.id` is false
IsReminderOwner(reminder, author) == reminder.creator_id = author.id

\* dict without a key, dict with a key set
DictPop(d, k) == [j \in DOMAIN d \ {k} |-> d[j]]
DictPut(d, k, v) == [j \in DOMAIN d \cup {k} |-> IF j = k THEN v ELSE d[j]]

\* delete_reminder, lines 422-432: DELETE FROM reminders WHERE id = ?; commit
RowsAfterDelete(rows, id) == {row \in rows : row.id # id}

\* delete_reminder, lines 434-436, run by the object `self` whose attributes
\* are `attributes`:
\*     with suppress(Exception):
\*         self.bot.REMINDER_TASKS[reminder.id]['task'].cancel()
\*         self.bot.REMINDER_TASKS.pop(reminder.id)
\* Reading self.bot raises AttributeError when self has no attribute bot,
\* reading a missing key raises KeyError: suppress(Exception) ends the block
\* there.  The result is the dict and the timers after the block.
AfterSuppressedBlock(attributes, tasks, tms, id) ==
    IF "bot" \notin attributes \/ id \notin DOMAIN tasks
    THEN [tasks |-> tasks, timers |-> tms]
    ELSE [tasks |-> DictPop(tasks, id),
          timers |-> [tms EXCEPT ![tasks[id].task].task =
                         IF @ = "pending" THEN "cancelled" ELSE @]]

\* Bot.delete_reminder(reminder), as one step: the rows, the dict and the
\* timers after it
delete_reminder(reminder) ==
    LET after == AfterSuppressedBlock(BotAttributes, REMINDER_TASKS, timers, reminder.id)
    IN  [reminders |-> RowsAfterDelete(reminders, reminder.id),
         tasks |-> after.tasks,
         timers |-> after.timers]

NoRemoval == [pc |-> "idle", n |-> 0]

ReminderInit ==
    /\ \E creators \in [ReminderIds -> Users], secs \in [ReminderIds -> Seconds] :
        /\ reminders = {Reminder(r, creators[r]) : r \in ReminderIds}
        /\ timers = [r \in ReminderIds |->
                        [pc |-> "created", seconds |-> secs[r], task |-> "none",
                         reminder |-> Reminder(r, creators[r])]]
    /\ REMINDER_TASKS = <<>>
    /\ dispatched = [r \in ReminderIds |-> 0]
    /\ due = {}
    /\ removal = NoRemoval
    /\ CommandIdle /\ MusicIdle /\ MessageIdle
    /\ atts = <<>>
    /\ temp_file = "unbound"
    /\ pc = "bot"
    /\ file = <<>>
    /\ file_content = <<>>
    /\ pos = 0
    /\ idx = 0
    /\ replay_metadata = None
    /\ battle_data = <<>>
    /\ yielded = <<>>
    /\ skipped = {}
    /\ replay = NoReplay
    /\ disk = NoDumps
    /\ built = <<>>
    /\ raised = "none"
    /\ error = "none"
    /\ runs = <<>>

\* start_timer, lines 460-477: up to `await task`, or the whole of the else
\* branch when the end time has passed
StartTimer(r) ==
    /\ timers[r].pc = "created"
    /\ IF IsFuture(timers[r].seconds)
       THEN /\ REMINDER_TASKS' = DictPut(REMINDER_TASKS, r,
                                     [task |-> r, reminder |-> timers[r].reminder])
            /\ timers' = [timers EXCEPT ![r].pc = "awaiting", ![r].task = "pending"]
            /\ UNCHANGED reminders
       ELSE LET d == delete_reminder(timers[r].reminder)
            IN  /\ reminders' = d.reminders
                /\ REMINDER_TASKS' = d.tasks
                /\ timers' = [d.timers EXCEPT ![r].pc = "returned"]
    /\ UNCHANGED <<dispatched, due, removal, commandVars, musicVars, messageVars,
                   attachVars, replayVars>>

\* start_timer, lines 468-474: `await task` returns because the sleep is over
\* (else: self.dispatch('reminder_due', reminder)) or raises CancelledError
\* because the task was cancelled (pass)
AwaitTask(r) ==
    /\ timers[r].pc = "awaiting"
    /\ IF timers[r].task = "cancelled"
       THEN /\ timers' = [timers EXCEPT ![r].pc = "returned"]
            /\ UNCHANGED <<dispatched, due>>
       ELSE /\ timers' = [timers EXCEPT ![r].pc = "returned", ![r].task = "done"]
            /\ dispatched' = [dispatched EXCEPT ![r] = @ + 1]
            /\ due' = due \cup {r}
    /\ UNCHANGED <<reminders, REMINDER_TASKS, removal, commandVars, musicVars,
                   messageVars, attachVars, replayVars>>

\* on_reminder_due, lines 338-362: with the channel still there the message
\* is sent and the reminder deleted; without it nothing happens
OnReminderDue(r) ==
    /\ r \in due
    /\ due' = due \ {r}
    /\ \E channel_found \in BOOLEAN :
        IF channel_found
        THEN LET d == delete_reminder(timers[r].reminder)
             IN  /\ reminders' = d.reminders
                 /\ REMINDER_TASKS' = d.tasks
                 /\ timers' = d.timers
        ELSE UNCHANGED <<reminders, REMINDER_TASKS, timers>>
    /\ UNCHANGED <<dispatched, removal, commandVars, musicVars, messageVars,
                   attachVars, replayVars>>

\* _reminder_remove, lines 442-456: up to `await ctx.confirm(msg)`
RemoveInvoke(author, id) ==
    /\ removal.pc = "idle"
    /\ removal.n < MaxRemovals
    /\ IF id \notin DOMAIN REMINDER_TASKS
       THEN removal' = [pc |-> "idle", n |-> removal.n + 1, author |-> author, id |-> id,
                        confirmed |-> "unasked", result |-> "ReminderDoesntExist"]
       ELSE IF ~is_moderator(author) /\ ~IsReminderOwner(REMINDER_TASKS[id].reminder, author)
            THEN removal' = [pc |-> "idle", n |-> removal.n + 1, author |-> author, id |-> id,
                             confirmed |-> "unasked", result |-> "NotReminderOwner"]
            ELSE removal' = [pc |-> "confirm", n |-> removal.n + 1, author |-> author, id |-> id,
                             confirmed |-> "unasked", result |-> "none",
                             reminder |-> REMINDER_TASKS[id].reminder]
    /\ UNCHANGED <<reminders, REMINDER_TASKS, timers, dispatched, due, commandVars,
                   musicVars, messageVars, attachVars, replayVars>>

\* _reminder_remove, lines 456-463: ctx.confirm returns (False when the
\* invoker declines or the prompt times out), then delete_reminder
RemoveConfirm(confirmed) ==
    /\ removal.pc = "confirm"
    /\ IF ~confirmed
       THEN /\ removal' = [pc |-> "idle", n |-> removal.n, author |-> removal.author,
                           id |-> removal.id, confirmed |-> "no", result |-> "returned"]
            /\ UNCHANGED <<reminders, REMINDER_TASKS, timers>>
       ELSE LET d == delete_reminder(removal.reminder)
            IN  /\ removal' = [pc |-> "idle", n |-> removal.n, author |-> removal.author,
                               id |-> removal.id, confirmed |-> "yes", result |-> "removed"]
                /\ reminders' = d.reminders
                /\ REMINDER_TASKS' = d.tasks
                /\ timers' = d.timers
    /\ UNCHANGED <<dispatched, due, commandVars, musicVars, messageVars,
                   attachVars, replayVars>>

ReminderNext ==
    \/ \E r \in ReminderIds : StartTimer(r)
    \/ \E r \in ReminderIds : AwaitTask(r)
    \/ \E r \in ReminderIds : OnReminderDue(r)
    \/ \E author \in Authors, id \in ReminderIds \cup {MaxReminders + 1} : RemoveInvoke(author, id)
    \/ \E confirmed \in BOOLEAN : RemoveConfirm(confirmed)

ReminderSpec == ReminderInit /\ [][ReminderNext]_vars

(***************************************************************************)
(* C23: deleting a reminder whose timer is pending                         *)
(***************************************************************************)
HasRow(r) == \E row \in reminders : row.id = r
Pending(r) == timers[r].pc = "awaiting" /\ timers[r].task = "pending"

\* C23: after delete_reminder(r) completes for a reminder r whose timer is
\* pending, r's sleep task is cancelled and r.id is no longer a key of
\* REMINDER_TASKS, so reminder_due is never dispatched for r afterwards: a
\* step that deletes the row of a pending reminder leaves the task
\* cancelled and the key gone, and no step dispatches reminder_due for a
\* reminder whose row is deleted.
C23_DeleteCancelsTimer ==
    [][\A r \in ReminderIds :
          /\ (HasRow(r) /\ Pending(r) /\ ~HasRow(r)') =>
                 (timers'[r].task = "cancelled" /\ r \notin DOMAIN REMINDER_TASKS')
          /\ (dispatched'[r] > dispatched[r]) => HasRow(r)]_vars

(***************************************************************************)
(* C24: what start_timer dispatches                                        *)
(***************************************************************************)
\* C24: start_timer(r) dispatches reminder_due for r at most once, and only
\* when r's end time was still in the future at start and the sleep finished
\* without being cancelled; when the end time has already passed, r is
\* deleted and reminder_due is not dispatched.
C24_DispatchAtMostOnce ==
    \A r \in ReminderIds :
        /\ dispatched[r] <= 1
        /\ dispatched[r] = 1 => (timers[r].seconds > 0 /\ timers[r].task = "done")
        /\ (timers[r].seconds <= 0 /\ timers[r].pc = "returned") =>
               (~HasRow(r) /\ dispatched[r] = 0)

\* one reminder was dispatched, another was found past its end and deleted
C24_Witness ==
    \E r, q \in ReminderIds :
        /\ dispatched[r] = 1 /\ timers[r].pc = "returned"
        /\ timers[q].seconds <= 0 /\ timers[q].pc = "returned" /\ ~HasRow(q)

(***************************************************************************)
(* C28: who may remove a reminder                                          *)
(***************************************************************************)
Moderator(author) == author.owner \/ author.roles \cap ModeratorRoles # {}
MayRemove(author, reminder) == Moderator(author) \/ reminder.creator_id = author.id

Invocations == 1..MaxInvocations
CommandNames == {"a", "b"}

\* cc_add, line 508: `if len(content) > 500`
MaxContentLength == 500

\* len(content) of a cc_add call: at the limit, and past it
ContentLengths == {MaxContentLength, MaxContentLength + 1}

\* the calls: cc_add(command_name, content), cc_rename(command_name, new_command_name)
Calls ==
    {[cmd |-> "add", name |-> n, len |-> l, pc |-> "start", result |-> "none"] :
        n \in CommandNames, l \in ContentLengths}
    \cup
    {[cmd |-> "rename", name |-> n, new |-> nn, pc |-> "start", result |-> "none"] :
        n \in CommandNames, nn \in CommandNames}

\* the table when the commands are invoked
Tables == {<<>>, <<[id |-> 1, name |-> "a"]>>}

\* Bot.get_custom_command: SELECT * FROM custom_commands WHERE name = ?,
\* fetchone; None when no row has the name
get_custom_command(command_name) ==
    IF \E j \in 1..Len(custom_commands) : custom_commands[j].name = command_name
    THEN custom_commands[CHOOSE j \in 1..Len(custom_commands) :
                            /\ custom_commands[j].name = command_name
                            /\ \A k \in 1..(j - 1) : custom_commands[k].name # command_name]
    ELSE None

\* INSERT INTO custom_commands (.., name, ..): the id is AUTOINCREMENT
InsertRow(rows, command_name) ==
    Append(rows, [id |-> Len(rows) + 1, name |-> command_name])

\* UPDATE custom_commands SET name = ? WHERE name = ?
UpdateName(rows, new_command_name, command_name) ==
    [j \in 1..Len(rows) |->
        IF rows[j].name = command_name
        THEN [rows[j] EXCEPT !.name = new_command_name]
        ELSE rows[j]]

Finish(i, result) ==
    invocations' = [invocations EXCEPT ![i].pc = "done", ![i].result = result]
Goto(i, at) ==
    invocations' = [invocations EXCEPT ![i].pc = at]

CommandInit ==
    /\ custom_commands \in Tables
    /\ invocations \in [Invocations -> Calls]
    /\ ReminderIdle /\ MusicIdle /\ MessageIdle
    /\ atts = <<>>
    /\ temp_file = "unbound"
    /\ pc = "bot"
    /\ file = <<>>
    /\ file_content = <<>>
    /\ pos = 0
    /\ idx = 0
    /\ replay_metadata = None
    /\ battle_data = <<>>
    /\ yielded = <<>>
    /\ skipped = {}
    /\ replay = NoReplay
    /\ disk = NoDumps
    /\ built = <<>>
    /\ raised = "none"
    /\ error = "none"
    /\ runs = <<>>

\* cc_add, lines 508-515: the length check, then
\* `command = await self.bot.get_custom_command(command_name)`
AddCheck(i) ==
    /\ invocations[i].cmd = "add"
    /\ invocations[i].pc = "start"
    /\ IF invocations[i].len > MaxContentLength
       THEN Finish(i, "InvalidCommandContent")
       ELSE IF get_custom_command(invocations[i].name) # None
            THEN Finish(i, "CommandExists")
            ELSE Goto(i, "insert")
    /\ UNCHANGED <<custom_commands, reminderVars, musicVars, messageVars,
                   attachVars, replayVars>>

\* cc_add, lines 517-536: await cursor.execute(INSERT ..), commit
AddInsert(i) ==
    /\ invocations[i].cmd = "add"
    /\ invocations[i].pc = "insert"
    /\ custom_commands' = InsertRow(custom_commands, invocations[i].name)
    /\ Finish(i, "created")
    /\ UNCHANGED <<reminderVars, musicVars, messageVars, attachVars, replayVars>>

\* cc_rename, lines 595-597: the command to rename has to exist
RenameCheckOld(i) ==
    /\ invocations[i].cmd = "rename"
    /\ invocations[i].pc = "start"
    /\ IF get_custom_command(invocations[i].name) = None
       THEN Finish(i, "CommandDoesntExist")
       ELSE Goto(i, "checknew")
    /\ UNCHANGED <<custom_commands, reminderVars, musicVars, messageVars,
                   attachVars, replayVars>>

\* cc_rename, lines 599-601: the new name has to be free
RenameCheckNew(i) ==
    /\ invocations[i].cmd = "rename"
    /\ invocations[i].pc = "checknew"
    /\ IF get_custom_command(invocations[i].new) # None
       THEN Finish(i, "CommandExists")
       ELSE Goto(i, "update")
    /\ UNCHANGED <<custom_commands, reminderVars, musicVars, messageVars,
                   attachVars, replayVars>>

\* cc_rename, lines 603-616: await cursor.execute(UPDATE ..), commit
RenameUpdate(i) ==
    /\ invocations[i].cmd = "rename"
    /\ invocations[i].pc = "update"
    /\ custom_commands' = UpdateName(custom_commands, invocations[i].new, invocations[i].name)
    /\ Finish(i, "renamed")
    /\ UNCHANGED <<reminderVars, musicVars, messageVars, attachVars, replayVars>>

CommandNext ==
    \E i \in Invocations :
        \/ AddCheck(i)
        \/ AddInsert(i)
        \/ RenameCheckOld(i)
        \/ RenameCheckNew(i)
        \/ RenameUpdate(i)

CommandSpec == CommandInit /\ [][CommandNext]_vars

(***************************************************************************)
(* C25: custom command names stay unique                                   *)
(***************************************************************************)
UniqueNames ==
    \A j, k \in 1..Len(custom_commands) :
        j # k => custom_commands[j].name # custom_commands[k].name

\* the name an invocation wants to give to a row
WantedName(call) == IF call.cmd = "add" THEN call.name ELSE call.new
Succeeded(call) == call.pc = "done" /\ call.result \in {"created", "renamed"}

\* C25: custom command names stay unique: after any interleaving of cc_add
\* and cc_rename invocations no two rows of custom_commands have the same
\* name, and of two invocations that want the same name the losing one ends
\* with CommandExists (so they do not both succeed).
C25_NamesStayUnique ==
    /\ UniqueNames
    /\ \A i, j \in Invocations :
          (i # j /\ WantedName(invocations[i]) = WantedName(invocations[j])) =>
              ~(Succeeded(invocations[i]) /\ Succeeded(invocations[j]))


(***************************************************************************)
(* The music players: Music.play_, Music.stop, Music.cleanup and           *)
(* MusicPlayer.player_loop.  A MusicPlayer is named by its place in        *)
(* `loops`; MusicPlayer.__init__ starts its player_loop task.  The         *)
(* download of a song (create_source, regather_stream) is taken to         *)
(* succeed.                                                                *)
(***************************************************************************)
Guilds == {1}
PlayerObjects == 1..MaxMusicPlayers
Songs == {"song"}

\* guild.voice_client is None
NoVoiceClient == "None"

\* Music.get_player(ctx): the registered player, or a new one
IsRegistered(players, guild) == guild \in DOMAIN players

\* MusicPlayer(ctx): empty queue, player_loop waiting in queue.get()
NewPlayer(guild) == [guild |-> guild, pc |-> "waiting", queue |-> <<>>]

\* Music.cleanup(guild), lines 224-232:
\*     with suppress(AttributeError, KeyError):
\*         await guild.voice_client.disconnect()
\*         ...queue._queue.clear()
\*         del self.bot.MUSIC_PLAYERS[guild.id]
\* With guild.voice_client None the first line raises AttributeError and the
\* block ends there; without a registered player the queue line raises
\* KeyError, after the disconnect.
CleanupResult(guild) ==
    IF voice_client[guild] = NoVoiceClient
    THEN [voice_client |-> voice_client, players |-> MUSIC_PLAYERS, loops |-> loops]
    ELSE IF ~IsRegistered(MUSIC_PLAYERS, guild)
         THEN [voice_client |-> [voice_client EXCEPT ![guild] = NoVoiceClient],
               players |-> MUSIC_PLAYERS, loops |-> loops]
         ELSE [voice_client |-> [voice_client EXCEPT ![guild] = NoVoiceClient],
               players |-> [g \in DOMAIN MUSIC_PLAYERS \ {guild} |-> MUSIC_PLAYERS[g]],
               loops |-> [loops EXCEPT ![MUSIC_PLAYERS[guild]].queue = <<>>]]

MusicInit ==
    /\ MUSIC_PLAYERS = <<>>
    /\ loops = <<>>
    /\ voice_client = [g \in Guilds |-> NoVoiceClient]
    /\ cleanups = {}
    /\ ReminderIdle /\ CommandIdle /\ MessageIdle
    /\ atts = <<>>
    /\ temp_file = "unbound"
    /\ pc = "bot"
    /\ file = <<>>
    /\ file_content = <<>>
    /\ pos = 0
    /\ idx = 0
    /\ replay_metadata = None
    /\ battle_data = <<>>
    /\ yielded = <<>>
    /\ skipped = {}
    /\ replay = NoReplay
    /\ disk = NoDumps
    /\ built = <<>>
    /\ raised = "none"
    /\ error = "none"
    /\ runs = <<>>

\* play_, lines 291-301: connect when there is no voice client, get_player,
\* create_source, player.queue.put(source)
Play(guild, song) ==
    /\ IF IsRegistered(MUSIC_PLAYERS, guild)
       THEN /\ Len(loops[MUSIC_PLAYERS[guild]].queue) < MaxQueue
            /\ loops' = [loops EXCEPT ![MUSIC_PLAYERS[guild]].queue = Append(@, song)]
            /\ UNCHANGED MUSIC_PLAYERS
       ELSE /\ Len(loops) < MaxMusicPlayers
            /\ loops' = Append(loops, [NewPlayer(guild) EXCEPT !.queue = <<song>>])
            /\ MUSIC_PLAYERS' = [g \in DOMAIN MUSIC_PLAYERS \cup {guild} |->
                                    IF g = guild THEN Len(loops) + 1 ELSE MUSIC_PLAYERS[g]]
    /\ voice_client' = [voice_client EXCEPT ![guild] = "connected"]
    /\ UNCHANGED <<cleanups, reminderVars, commandVars, messageVars, attachVars, replayVars>>

\* player_loop, lines 168-200: queue.get() returns a song, which is handed
\* to self.ctx.guild.voice_client.play; with voice_client None that raises
\* AttributeError, which ends the task
LoopGet(p) ==
    /\ p <= Len(loops)
    /\ loops[p].pc = "waiting"
    /\ loops[p].queue # <<>>
    /\ IF voice_client[loops[p].guild] = NoVoiceClient
       THEN loops' = [loops EXCEPT ![p].pc = "ended", ![p].queue = Tail(@)]
       ELSE loops' = [loops EXCEPT ![p].pc = "playing", ![p].queue = Tail(@)]
    /\ UNCHANGED <<MUSIC_PLAYERS, voice_client, cleanups, reminderVars, commandVars,
                   messageVars, attachVars, replayVars>>

\* player_loop, lines 201-211: the song is over (or playback was stopped),
\* `after` sets self.next and the loop starts its next round
SongEnds(p) ==
    /\ p <= Len(loops)
    /\ loops[p].pc = "playing"
    /\ loops' = [loops EXCEPT ![p].pc = "waiting"]
    /\ UNCHANGED <<MUSIC_PLAYERS, voice_client, cleanups, reminderVars, commandVars,
                   messageVars, attachVars, replayVars>>

\* player_loop, lines 169-175: five minutes without a song: a registered
\* player calls self.destroy(guild), which creates the cleanup task, and
\* the loop returns
IdleTimeout(p) ==
    /\ p <= Len(loops)
    /\ loops[p].pc = "waiting"
    /\ loops[p].queue = <<>>
    /\ loops' = [loops EXCEPT ![p].pc = "ended"]
    /\ IF \E g \in DOMAIN MUSIC_PLAYERS : MUSIC_PLAYERS[g] = p
       THEN cleanups' = cleanups \cup {loops[p].guild}
       ELSE UNCHANGED cleanups
    /\ UNCHANGED <<MUSIC_PLAYERS, voice_client, reminderVars, commandVars,
                   messageVars, attachVars, replayVars>>

\* the task that destroy() created runs Music.cleanup(guild)
Cleanup(guild) ==
    /\ guild \in cleanups
    /\ cleanups' = cleanups \ {guild}
    /\ voice_client' = CleanupResult(guild).voice_client
    /\ MUSIC_PLAYERS' = CleanupResult(guild).players
    /\ loops' = CleanupResult(guild).loops
    /\ UNCHANGED <<reminderVars, commandVars, messageVars, attachVars, replayVars>>

\* stop, lines 455-460: NotPlaying without a voice client, else cleanup
Stop(guild) ==
    /\ voice_client[guild] # NoVoiceClient
    /\ voice_client' = CleanupResult(guild).voice_client
    /\ MUSIC_PLAYERS' = CleanupResult(guild).players
    /\ loops' = CleanupResult(guild).loops
    /\ UNCHANGED <<cleanups, reminderVars, commandVars, messageVars, attachVars, replayVars>>

\* the bot is disconnected from the voice channel: guild.voice_client is None
VoiceDisconnect(guild) ==
    /\ voice_client[guild] # NoVoiceClient
    /\ voice_client' = [voice_client EXCEPT ![guild] = NoVoiceClient]
    /\ UNCHANGED <<MUSIC_PLAYERS, loops, cleanups, reminderVars, commandVars,
                   messageVars, attachVars, replayVars>>

MusicNext ==
    \/ \E guild \in Guilds, song \in Songs : Play(guild, song)
    \/ \E p \in PlayerObjects : LoopGet(p)
    \/ \E p \in PlayerObjects : SongEnds(p)
    \/ \E p \in PlayerObjects : IdleTimeout(p)
    \/ \E guild \in Guilds : Cleanup(guild)
    \/ \E guild \in Guilds : Stop(guild)
    \/ \E guild \in Guilds : VoiceDisconnect(guild)

MusicSpec == MusicInit /\ [][MusicNext]_vars

(***************************************************************************)
(* C26: a registered player has a running loop                             *)
(***************************************************************************)
\* C26: every MusicPlayer registered in MUSIC_PLAYERS for a guild has a
\* running player loop, so that a song put on the queue of the player that
\* get_player returns is taken from the queue and played: after any
\* sequence of play, stop, idle timeout and voice disconnect, and once the
\* cleanup that a timeout asked for has run, the loop of the registered
\* player has not ended.
C26_RegisteredPlayerRuns ==
    \A g \in DOMAIN MUSIC_PLAYERS :
        g \notin cleanups => loops[MUSIC_PLAYERS[g]].pc # "ended"


(***************************************************************************)
(* The repeat counter of Events.on_message.  Every message is handled by   *)
(* its own on_message task; a task runs until it awaits, and the only      *)
(* await between reading Events._last_messages and writing it back is      *)
(* `await channel.send(content)`.  The content of a message is the         *)
(* sequence of its characters.                                             *)
(***************************************************************************)
Channels == {1, 2}

\* on_message, line 485: `if d_counter == 4`
EchoAt == 4

\* a member with a role, whose message nothing else in on_message handles
Plain(content) ==
    [content |-> content, author |-> "member", blacklisted |-> FALSE, roles |-> 2,
     twitter |-> FALSE, mentions_bot |-> FALSE]

\* the messages that arrive: two texts, a custom command, the command of
\* another bot, a message without text (an attachment), and the text hi
\* from the bot itself (its echo), from a blacklisted user, from a member
\* without roles, with a twitter link and with a mention of the bot
Messages ==
    {Plain(<<"h", "i">>),
     Plain(<<"y", "o">>),
     Plain(<<">", "h", "i">>),
     Plain(<<".", "h", "i">>),
     Plain(<<>>),
     [Plain(<<"h", "i">>) EXCEPT !.author = "bot"],
     [Plain(<<"h", "i">>) EXCEPT !.blacklisted = TRUE],
     [Plain(<<"h", "i">>) EXCEPT !.roles = 1],
     [Plain(<<"h", "i">>) EXCEPT !.twitter = TRUE],
     [Plain(<<"h", "i">>) EXCEPT !.mentions_bot = TRUE]}

\* content.startswith(prefixes)
ContentStartsWith(content, prefixes) == Len(content) > 0 /\ content[1] \in prefixes

\* on_message, lines 384-474: the branch of the if/elif chain that handles
\* the message
Branch(message) ==
    IF message.author = "bot" THEN "return"
    ELSE IF message.blacklisted THEN "return"
    ELSE IF message.roles = 1 THEN "links"
    ELSE IF message.twitter THEN "twitter"
    ELSE IF message.mentions_bot THEN "mention"
    ELSE IF ContentStartsWith(message.content, {">"}) THEN "command"
    ELSE IF ContentStartsWith(message.content, {">", "."}) = FALSE THEN "repeat"
    ELSE "none"

\* the defaultdict's value for a channel without an entry: str(), int()
NoLastMessage == [content |-> <<>>, counter |-> 0]

\* on_message, lines 475-487: d_content and d_counter after the comparison,
\* and whether the content is sent
Repeat(last, content) ==
    IF last.content = <<>> \/ content # last.content
    THEN [content |-> content, counter |-> 1, echo |-> FALSE]
    ELSE [content |-> last.content, counter |-> last.counter + 1,
          echo |-> last.counter + 1 = EchoAt]

\* history: the run of identical messages that reached the counter, with
\* the number of times a run became EchoAt long and the number of messages;
\* a message without text has no content to repeat and ends the run
NothingSeen == [content |-> <<>>, times |-> 0, fourths |-> 0, n |-> 0]
SeenAfter(s, content, counted) ==
    IF ~counted THEN [s EXCEPT !.n = @ + 1]
    ELSE LET times == IF content = <<>> THEN 0
                      ELSE IF s.times > 0 /\ s.content = content THEN s.times + 1
                      ELSE 1
         IN  [content |-> content, times |-> times,
              fourths |-> IF times = EchoAt THEN s.fourths + 1 ELSE s.fourths,
              n |-> s.n + 1]

MessagesSeen == Cardinality(UNION {{<<c, k>> : k \in 1..seen[c].n} : c \in Channels})

MessageInit ==
    /\ last_messages = [c \in Channels |-> NoLastMessage]
    /\ handlers = <<>>
    /\ sent = [c \in Channels |-> 0]
    /\ seen = [c \in Channels |-> NothingSeen]
    /\ ReminderIdle /\ CommandIdle /\ MusicIdle
    /\ atts = <<>>
    /\ temp_file = "unbound"
    /\ pc = "bot"
    /\ file = <<>>
    /\ file_content = <<>>
    /\ pos = 0
    /\ idx = 0
    /\ replay_metadata = None
    /\ battle_data = <<>>
    /\ yielded = <<>>
    /\ skipped = {}
    /\ replay = NoReplay
    /\ disk = NoDumps
    /\ built = <<>>
    /\ raised = "none"
    /\ error = "none"
    /\ runs = <<>>

\* on_message for a message in a channel: the whole handler, or, when the
\* content is to be sent, the handler up to `await channel.send(content)`
OnMessage(channel, message) ==
    /\ MessagesSeen < MaxMessages
    /\ seen' = [seen EXCEPT ![channel] = SeenAfter(@, message.content, Branch(message) = "repeat")]
    /\ IF Branch(message) = "repeat"
       THEN LET d == Repeat(last_messages[channel], message.content)
            IN  IF d.echo
                THEN /\ handlers' = Append(handlers, [channel |-> channel, d_content |-> d.content,
                                                      d_counter |-> d.counter])
                     /\ UNCHANGED last_messages
                ELSE /\ last_messages' = [last_messages EXCEPT ![channel] =
                                             [content |-> d.content, counter |-> d.counter]]
                     /\ UNCHANGED handlers
       ELSE UNCHANGED <<last_messages, handlers>>
    /\ UNCHANGED <<sent, reminderVars, commandVars, musicVars, attachVars, replayVars>>

\* on_message, lines 486-493: `await channel.send(content)` returns and the
\* handler writes its d_content and d_counter to the dict
SendDone(k) ==
    /\ k <= Len(handlers)
    /\ sent' = [sent EXCEPT ![handlers[k].channel] = @ + 1]
    /\ last_messages' = [last_messages EXCEPT ![handlers[k].channel] =
                            [content |-> handlers[k].d_content, counter |-> handlers[k].d_counter]]
    /\ handlers' = [j \in 1..(Len(handlers) - 1) |->
                       IF j < k THEN handlers[j] ELSE handlers[j + 1]]
    /\ UNCHANGED <<seen, reminderVars, commandVars, musicVars, attachVars, replayVars>>

MessageNext ==
    \/ \E channel \in Channels, message \in Messages : OnMessage(channel, message)
    \/ \E k \in 1..MaxMessages : SendDone(k)

MessageSpec == MessageInit /\ [][MessageNext]_vars

(***************************************************************************)
(* C27: one echo per run of four                                           *)
(***************************************************************************)
Sending(c) == \E k \in 1..Len(handlers) : handlers[k].channel = c

\* C27: for each channel the bot echoes a message exactly when the same
\* non-command content has been seen 4 times in a row in that channel: a
\* run of n >= 4 identical consecutive messages triggers exactly one echo
\* (at the 4th), and a different message in between resets the count to 1.
\* So once no send is under way in a channel, the echoes sent there are as
\* many as the runs that became 4 long.
C27_OneEchoPerRun ==
    \A c \in Channels : ~Sending(c) => sent[c] = seen[c].fourths

====
